---- MODULE Spec2Model ----
EXTENDS FiniteSets, Integers, Sequences, TLC

(***************************************************************************)
(* Chunked subtitle translation (src/translation/translation.py).          *)
(*                                                                         *)
(* Text is a sequence of character tokens.  "NL" is a line feed, "SP" a    *)
(* space, "0" and "1" are digits, "a" "b" "x" "y" are letters.  "H1" and   *)
(* "H2" stand for the fixed-width head of a timestamp line up to its last  *)
(* separator ("00:00:01,000 --> 00:00:02," and "00:00:03.000 --> 00:00:04.")*)
(* so that a timestamp is a head followed by exactly three digit tokens.   *)
(* Positions are 1-based; a span [i, j) is kept as the pair i, j with j    *)
(* exclusive, so Python's offset k is position k + 1.                      *)
(***************************************************************************)

\* ---------------------------------------------------------------- bounds
MaxBlocks == 3
MaxChunkSize == 2
MaxRetries == 1
MaxSegments == 3
MaxMillis == 40
MaxRetryCount == 1

\* ------------------------------------------------------------ characters
Digits == {"0", "1"}
Heads == {"H1", "H2"}
White == {"NL", "SP"}

Slice(s, i, j) == SubSeq(s, i, j - 1)

RECURSIVE RunEnd(_, _, _)
RunEnd(s, p, S) ==
  IF p <= Len(s) /\ s[p] \in S THEN RunEnd(s, p + 1, S) ELSE p

RECURSIVE lstrip(_)
lstrip(s) ==
  IF s # <<>> /\ Head(s) \in White THEN lstrip(Tail(s)) ELSE s

RECURSIVE rstrip(_)
rstrip(s) ==
  IF s # <<>> /\ s[Len(s)] \in White THEN rstrip(Slice(s, 1, Len(s))) ELSE s

strip(s) == rstrip(lstrip(s))

RECURSIVE join(_)
join(parts) ==
  IF parts = <<>> THEN <<>> ELSE Head(parts) \o join(Tail(parts))

\* ------------------------------------------------- subtitle_block_regex
\* \d{2}:\d{2}:\d{2}[,.]\d{3}\s*-->\s*\d{2}:\d{2}:\d{2}[,.]\d{3} at position t
TimestampAt(s, t) ==
  /\ t >= 1
  /\ t + 3 <= Len(s)
  /\ s[t] \in Heads
  /\ \A i \in 1..3 : s[t + i] \in Digits

\* \s*$.*?\n after a timestamp ending before q: the greedy \s* gives back
\* characters until it stands before a line feed that still leaves one
\* character for the body; 0 when there is none.
LineEnd(s, q) ==
  LET we == RunEnd(s, q, White)
      R == {r \in q..(we - 1) : s[r] = "NL" /\ r < Len(s)}
  IN IF R = {} THEN 0 ELSE CHOOSE r \in R : \A r2 \in R : r2 <= r

\* (.+?)(?=\n\n|\Z) from position b: the exclusive end of the body.
RECURSIVE BodyEnd(_, _)
BodyEnd(s, e) ==
  IF e > Len(s) THEN e
  ELSE IF s[e] = "NL" /\ e + 1 <= Len(s) /\ s[e + 1] = "NL" THEN e
  ELSE BodyEnd(s, e + 1)

NoMatch == [start |-> 0, g2 |-> 0, g3 |-> 0, end |-> 0]

\* groups 2 and 3 with the timestamp starting at t, the match starting at p
MatchFrom(s, p, t) ==
  IF ~TimestampAt(s, t) THEN NoMatch
  ELSE LET r == LineEnd(s, t + 4)
       IN IF r = 0 THEN NoMatch
          ELSE [start |-> p, g2 |-> t, g3 |-> r + 1, end |-> BodyEnd(s, r + 2)]

\* the pattern with group 1 (\d+\s*\n) not optional
subtitle_block_regex_index_required(s, p) ==
  LET de == RunEnd(s, p, Digits)
      we == RunEnd(s, de, White)
  IN IF de > p /\ we > de /\ s[we - 1] = "NL"
     THEN MatchFrom(s, p, we) ELSE NoMatch

\* One attempt of the pattern at position p: group 1 (\d+\s*\n)? is tried
\* first, then the pattern without it, where ^ needs a line start.
subtitle_block_regex(s, p) ==
  LET de == RunEnd(s, p, Digits)
      we == RunEnd(s, de, White)
      withIndex == IF de > p /\ we > de /\ s[we - 1] = "NL"
                   THEN MatchFrom(s, p, we) ELSE NoMatch
  IN IF withIndex # NoMatch THEN withIndex
     ELSE IF p = 1 \/ s[p - 1] = "NL" THEN MatchFrom(s, p, p)
     ELSE NoMatch

RECURSIVE FindFrom(_, _)
FindFrom(s, pos) ==
  IF pos > Len(s) THEN <<>>
  ELSE LET m == subtitle_block_regex(s, pos)
       IN IF m # NoMatch THEN <<m>> \o FindFrom(s, m.end)
          ELSE FindFrom(s, pos + 1)

finditer(s) == FindFrom(s, 1)

\* match.group(k) of a match m found in s; an absent group 1 is <<>>
group(s, m, k) ==
  IF k = 1 THEN Slice(s, m.start, m.g2)
  ELSE IF k = 2 THEN Slice(s, m.g2, m.g3)
  ELSE Slice(s, m.g3, m.end)


\* BlockValid without the comparison of the index lines
BlockValid_no_index(resp, tm, text, om) ==
  /\ strip(group(text, om, 2)) = strip(group(resp, tm, 2))
  /\ (strip(group(resp, tm, 3)) = <<>> => strip(group(text, om, 3)) = <<>>)

\* ------------------------------------------------- _is_valid_response
BlockValid(resp, tm, text, om) ==
  /\ strip(group(text, om, 1)) = strip(group(resp, tm, 1))
  /\ strip(group(text, om, 2)) # <<>>
  /\ strip(group(resp, tm, 2)) # <<>>
  /\ strip(group(text, om, 2)) = strip(group(resp, tm, 2))
  /\ (strip(group(resp, tm, 3)) = <<>> => strip(group(text, om, 3)) = <<>>)

\* text is the string the original matches were found in
is_valid_response(resp, text, original_chunk_matches) ==
  IF resp = <<>> /\ original_chunk_matches = <<>> THEN TRUE
  ELSE IF original_chunk_matches = <<>> \/ resp = <<>> THEN FALSE
  ELSE LET tms == finditer(resp)
       IN IF Len(tms) # Len(original_chunk_matches) THEN FALSE
          ELSE \A i \in 1..Len(tms) :
                 BlockValid(resp, tms[i], text, original_chunk_matches[i])

\* --------------------------------------------------- input documents
\* blocks with text: with an index line, and without one
TextBlocks ==
  { <<"1", "NL", "H1", "0", "0", "0", "NL", "a">>,
    <<"H2", "0", "0", "1", "NL", "b">> }

\* a block whose body is blank
BlankBlock == <<"0", "NL", "H1", "0", "0", "1", "SP", "NL", "SP">>

BlockKinds == TextBlocks \cup {BlankBlock}

Separator == <<"NL", "NL">>

Frames ==
  { [pre |-> <<>>, post |-> <<>>],
    [pre |-> <<"NL">>, post |-> <<"NL">>],
    [pre |-> <<"a", "NL">>, post |-> <<"NL", "NL">>],
    [pre |-> <<>>, post |-> <<"NL", "NL", "a">>] }

\* n blocks with a blank line between them, the last one of any kind
RECURSIVE Blocks(_)
Blocks(n) ==
  IF n = 0 THEN {<<>>}
  ELSE IF n = 1 THEN BlockKinds
  ELSE {b \o Separator \o rest : b \in TextBlocks, rest \in Blocks(n - 1)}

\* two blocks that the pattern does not keep apart: no blank line between
\* them, or a blank body before the blank line
Unseparated ==
  {b \o <<"NL">> \o c : b \in BlockKinds, c \in BlockKinds}
  \cup {BlankBlock \o Separator \o c : c \in BlockKinds}

Docs ==
  UNION ( { {f.pre \o body \o f.post : f \in Frames, body \in Blocks(n)} :
            n \in 0..MaxBlocks }
          \cup { {f.pre \o body \o f.post : f \in Frames, body \in Unseparated} } )

\* ------------------------------------------------ provider behaviour
Translate(c) ==
  [i \in 1..Len(c) |-> IF c[i] = "a" THEN "x" ELSE IF c[i] = "b" THEN "y" ELSE c[i]]

SwapHeads(c) ==
  [i \in 1..Len(c) |-> IF c[i] = "H1" THEN "H2" ELSE IF c[i] = "H2" THEN "H1" ELSE c[i]]

\* a provider that writes text where the last body of c is blank
FillBody(c) ==
  IF c # <<>> /\ c[Len(c)] = "SP"
  THEN [i \in 1..Len(c) |-> IF i = Len(c) THEN "x" ELSE c[i]]
  ELSE c

\* what self.llm.generate may return for the chunk text c
Responses(c) ==
  { c,
    Translate(c),
    Translate(FillBody(c)),
    <<"SP">> \o Translate(c) \o <<"NL">>,
    Translate(c) \o <<"NL", "NL", "H2", "0", "0", "0">>,
    Translate(c) \o <<"NL", "NL", "H2", "0", "0", "0", "NL", "x">>,
    SwapHeads(Translate(c)),
    <<"1">> \o Translate(c),
    <<"NL">>,
    <<>> }


\* ------------------------------ translate_subtitle_file_by_chunk: state
VARIABLES
  file_exists,            \* os.path.isfile(input_file_path)
  content,                \* the text of the input file
  chunk_size,
  max_retries,
  pc,                     \* "idle", "call", "scan", "attempt", "done", "raised"
  error,                  \* the exception the call raised, "none" if none
  translated_content,     \* list of output fragments
  current_chunk_matches,
  last_match_end,
  match_iter,             \* matches the finditer loop has not yielded yet
  caller,                 \* where process_chunk was called: "loop" or "tail"
  attempt,
  final_output,           \* the text written to the output file
  writes,                 \* number of times the output file was written
  returned,               \* the value returned, "" before the return
  calls,                  \* provider calls made for the chunk in progress
  chunk_log,              \* chunks appended so far, with the text appended
  last_chunk              \* how the last process_chunk call ended, until
                          \* the next one starts its provider calls

\* ------------------------------------- _is_valid_response alone: state
VARIABLES
  v_pc,                   \* "idle", "ready", "validated"
  v_text,                 \* the string the original chunk was matched in
  v_matches,              \* original_chunk_matches
  v_response,             \* translated_response_str
  v_verdict               \* the value returned

\* ----------------------------- SubtitleProcessor.merge_segments: state
VARIABLES
  segments,               \* the argument: a list of segments
  max_gap,                \* self.max_gap
  max_chars,              \* self.max_chars
  min_chars,              \* self.min_chars
  m_pc,                   \* "idle", "call", "loop", "returned"
  seg_i,                  \* the loop variable i, 1-based
  dicts,                  \* the cue dicts created so far; a dict is
                          \* referred to by its position in this list
  current,                \* the dict that current refers to, 0 if none
  merged,                 \* the list merged, of references to dicts
  merge_result            \* the list returned, as the cues it holds

\* ------------------------- subtitle_block_regex.finditer alone: state
VARIABLES
  sc_pc,                  \* "idle", "built", "scanned"
  sc_blocks,              \* the blocks the document is built from
  sc_sep,                 \* the blank lines between two blocks
  sc_end,                 \* what follows the last block
  sc_found                \* the matches finditer returned

\* ------------------------ SubtitleProcessor.format_timestamp: state
VARIABLES
  ft_pc,                  \* "idle", "call", "returned"
  ft_seconds,             \* the argument, in ten-thousandths of a second:
                          \* the float nearest to ft_seconds / 10000
  ft_result               \* the string returned

\* ------------- OpenRouterTranslator.translate, two calls on one instance
VARIABLES
  current_model,          \* self.current_model, shared by the calls
  or_retry_count,         \* per call: the argument retry_count
  or_pc,                  \* per call: "idle", "models", "attempts",
                          \* "returned", "raised"
  or_next,                \* per call: index in models_to_try of the model
                          \* the outer loop takes next
  or_model,               \* per call: the local variable model
  or_attempt,             \* per call: the local variable attempt
  or_requests,            \* per call: the requests sent, each with the model
                          \* asked and whether its output was returned
  or_answer,              \* per call: the content the returned text was
                          \* made from, NoContent if none
  or_result               \* per call: the value returned or the exception

\* ---------------------------------- GeminiTranslator.translate: state
VARIABLES
  g_retry_count,          \* the argument retry_count
  g_pc,                   \* "idle", "attempts", "returned", "raised"
  g_attempt,              \* the local variable attempt
  g_requests,             \* the requests sent, each with how it ended
  g_answer,               \* the content the returned text was made from
  g_result                \* the value returned or the exception

\* ------------------------------- a caller that abandons the run: state
VARIABLES
  cancelled_at            \* the number of the chunk that was being processed
                          \* when the caller gave up, 0 while it has not

\* -------------------------- celery_worker.transcribe_with_hybrid: state
VARIABLES
  h_pc,                   \* "idle", "worker_start", "call", "groq",
                          \* "fallback", "returned", "raised"
  whisper_model,          \* the global: "loaded" or "None"
  audio_duration,         \* get_audio_duration(file_path), in seconds
  h_invoked,              \* the transcribers invoked, in order
  h_result                \* transcriber_used when returned, the exception
                          \* when raised, "none" before

\* ------------- backend/app/main.py and tasks/celery_worker.py: state
VARIABLES
  api_pc,                 \* generate_subtitle: "idle", "request", "saved",
                          \* "checked", "returned"
  upload_exists,          \* os.path.exists(temp_filename)
  upload_duration,        \* get_audio_duration(temp_filename): the seconds
                          \* it returns, or not readable when it raises
  target_lang,            \* the form field target_lang
  api_reply,              \* what generate_subtitle answered, "none" before
  enqueued,               \* process_video_task.delay(...) has been accepted
  task_state,             \* the state the result backend holds for the task
  task_pc,                \* process_video_task: "idle", "queued", a step of
                          \* TaskSteps, "finally", "ended"
  task_raised,            \* the step that raised inside the task, or "none"
  task_return,            \* the value process_video_task returned, or "none"
  status_reply            \* what get_status answered last, "none" before

\* ------------------- subtitle_processor.create_srt_content: state
VARIABLES
  r_pc,                   \* "idle", "call", "rendered"
  segments_list,          \* the list returned by merge_segments
  srt_content,            \* the document create_srt_content returns
  r_found                 \* subtitle_block_regex.finditer(srt_content)

\* ------------------------------------- src/main.py process_video: state
VARIABLES
  p_pc,                   \* "idle", "call", "step2", "step3", "step4",
                          \* "returned"
  args,                   \* the parsed command line
  audio_file,             \* the local of the same name, "None" or a path
  subtitle_file,          \* the local of the same name, "None" or a path
  translated_subtitle_file, \* the local of the same name
  steps_run,              \* the steps that ran, in order, with their outcome
  p_result                \* "none", "True" or "False"

NoChunk == [ms |-> <<>>, text |-> <<>>, status |-> "none", emitted |-> <<>>,
            calls |-> <<>>]

inputs == <<file_exists, content, chunk_size, max_retries>>
outputs == <<final_output, writes, returned>>
translate_vars == <<inputs, pc, error, translated_content,
                    current_chunk_matches, last_match_end, match_iter, caller,
                    attempt, outputs, calls, chunk_log, last_chunk>>
valid_vars == <<v_pc, v_text, v_matches, v_response, v_verdict>>
merge_inputs == <<segments, max_gap, max_chars, min_chars>>
merge_vars == <<merge_inputs, m_pc, seg_i, dicts, current, merged, merge_result>>
scan_vars == <<sc_pc, sc_blocks, sc_sep, sc_end, sc_found>>
format_vars == <<ft_pc, ft_seconds, ft_result>>
openrouter_vars == <<current_model, or_retry_count, or_pc, or_next, or_model,
                     or_attempt, or_requests, or_answer, or_result>>
gemini_vars == <<g_retry_count, g_pc, g_attempt, g_requests, g_answer, g_result>>
provider_vars == <<openrouter_vars, gemini_vars>>
core_vars == <<translate_vars, valid_vars, merge_vars>>
cancel_vars == <<cancelled_at>>
hybrid_vars == <<h_pc, whisper_model, audio_duration, h_invoked, h_result>>
service_vars == <<api_pc, upload_exists, upload_duration, target_lang, api_reply,
                  enqueued, task_state, task_pc, task_raised, task_return,
                  status_reply>>
render_vars == <<r_pc, segments_list, srt_content, r_found>>
pipeline_vars == <<p_pc, args, audio_file, subtitle_file,
                   translated_subtitle_file, steps_run, p_result>>
app_vars == <<service_vars, render_vars, pipeline_vars>>
lib_vars == <<scan_vars, format_vars, provider_vars, cancel_vars, hybrid_vars>>
aux_vars == <<lib_vars, app_vars>>
\* all but the variables of one group
not_scan == <<core_vars, format_vars, provider_vars, cancel_vars, hybrid_vars,
             app_vars>>
not_format == <<core_vars, scan_vars, provider_vars, cancel_vars, hybrid_vars,
               app_vars>>
not_providers == <<core_vars, scan_vars, format_vars, cancel_vars, hybrid_vars,
                  app_vars>>
not_hybrid == <<core_vars, scan_vars, format_vars, provider_vars, cancel_vars,
               app_vars>>
not_service == <<core_vars, lib_vars, render_vars, pipeline_vars>>
not_render == <<core_vars, lib_vars, service_vars, pipeline_vars>>
not_pipeline == <<core_vars, lib_vars, service_vars, render_vars>>
vars == <<translate_vars, valid_vars, merge_vars, aux_vars>>

\* the state of translate_subtitle_file_by_chunk before it is called
TranslateIdle(p) ==
  /\ pc = p
  /\ error = "none"
  /\ translated_content = <<>>
  /\ current_chunk_matches = <<>>
  /\ last_match_end = 1
  /\ match_iter = <<>>
  /\ caller = "loop"
  /\ attempt = 0
  /\ final_output = <<>>
  /\ writes = 0
  /\ returned = ""
  /\ calls = <<>>
  /\ chunk_log = <<>>
  /\ last_chunk = NoChunk

ValidIdle ==
  /\ v_pc = "idle"
  /\ v_text = <<>>
  /\ v_matches = <<>>
  /\ v_response = <<>>
  /\ v_verdict = FALSE

\* merge_segments before it is called
MergeIdle(p) ==
  /\ m_pc = p
  /\ seg_i = 0
  /\ dicts = <<>>
  /\ current = 0
  /\ merged = <<>>
  /\ merge_result = <<>>

NoMerge ==
  /\ segments = <<>>
  /\ max_gap = 0
  /\ max_chars = 0
  /\ min_chars = 0
  /\ MergeIdle("idle")

\* translate_subtitle_file_by_chunk is not called at all
NoTranslate ==
  /\ file_exists = FALSE
  /\ content = <<>>
  /\ chunk_size = 0
  /\ max_retries = 0
  /\ TranslateIdle("idle")

CoreIdle == NoTranslate /\ ValidIdle /\ NoMerge

ScanIdle ==
  /\ sc_pc = "idle"
  /\ sc_blocks = <<>>
  /\ sc_sep = <<>>
  /\ sc_end = <<>>
  /\ sc_found = <<>>

FormatIdle ==
  /\ ft_pc = "idle"
  /\ ft_seconds = 0
  /\ ft_result = <<>>

\* the two calls of OpenRouterTranslator.translate
Calls == {1, 2}

NoContent == [form |-> "none"]
NoResult == [kind |-> "none"]

OpenRouterIdle(p) ==
  /\ or_pc = [c \in Calls |-> p]
  /\ or_next = [c \in Calls |-> 1]
  /\ or_model = [c \in Calls |-> "none"]
  /\ or_attempt = [c \in Calls |-> 0]
  /\ or_requests = [c \in Calls |-> <<>>]
  /\ or_answer = [c \in Calls |-> NoContent]
  /\ or_result = [c \in Calls |-> NoResult]

GeminiIdle(p) ==
  /\ g_pc = p
  /\ g_attempt = 0
  /\ g_requests = <<>>
  /\ g_answer = NoContent
  /\ g_result = NoResult

ProvidersIdle ==
  /\ current_model = "none"
  /\ or_retry_count = [c \in Calls |-> 0]
  /\ OpenRouterIdle("idle")
  /\ g_retry_count = 0
  /\ GeminiIdle("idle")

NotCancelled == cancelled_at = 0

HybridIdle ==
  /\ h_pc = "idle"
  /\ whisper_model = "None"
  /\ audio_duration = 0
  /\ h_invoked = <<>>
  /\ h_result = "none"

ServiceIdle ==
  /\ api_pc = "idle"
  /\ upload_exists = FALSE
  /\ upload_duration = [readable |-> FALSE, seconds |-> 0]
  /\ target_lang = "none"
  /\ api_reply = [kind |-> "none"]
  /\ enqueued = FALSE
  /\ task_state = "PENDING"
  /\ task_pc = "idle"
  /\ task_raised = "none"
  /\ task_return = [status |-> "none"]
  /\ status_reply = [state |-> "none"]

RenderIdle ==
  /\ r_pc = "idle"
  /\ segments_list = <<>>
  /\ srt_content = <<>>
  /\ r_found = <<>>

NoArgs == [skip_extract |-> FALSE, skip_transcribe |-> FALSE,
           skip_translate |-> FALSE, subtitle_file |-> "None",
           source_language |-> "auto"]

PipelineIdle ==
  /\ p_pc = "idle"
  /\ args = NoArgs
  /\ audio_file = "None"
  /\ subtitle_file = "None"
  /\ translated_subtitle_file = "None"
  /\ steps_run = <<>>
  /\ p_result = "none"

AppIdle == ServiceIdle /\ RenderIdle /\ PipelineIdle

LibIdle ==
  ScanIdle /\ FormatIdle /\ ProvidersIdle /\ NotCancelled /\ HybridIdle

AuxIdle == LibIdle /\ AppIdle

Init ==
  /\ file_exists \in BOOLEAN
  /\ content \in (IF file_exists THEN Docs ELSE {<<>>})
  /\ chunk_size \in (-1)..MaxChunkSize
  /\ max_retries \in 0..MaxRetries
  /\ TranslateIdle("call")
  /\ ValidIdle
  /\ NoMerge
  /\ AuxIdle

\* ------------------------------------------------------------- helpers
chunk_start(ms) == ms[1].start
chunk_end(ms) == ms[Len(ms)].end
chunk_content(ms) == Slice(content, chunk_start(ms), chunk_end(ms))

\* bad_chunk_size that lets 0 through
bad_chunk_size_negative == chunk_size < 0

\* line 79
bad_chunk_size == chunk_size <= 0

\* append that puts the fragment in front
prepend(list, x) == <<x>> \o list

\* list.append, lines 106, 125, 130, 163, 178
append(list, x) == Append(list, x)

\* has_text_to_translate that never finds a chunk blank
has_text_always(ms) == TRUE

\* line 127
has_text_to_translate(ms) ==
  \E i \in 1..Len(ms) : strip(group(content, ms[i], 3)) # <<>>

\* chunk_full with > for >=
chunk_full_late(cur) == Len(cur) > chunk_size

\* line 168
chunk_full(cur) == Len(cur) >= chunk_size

\* more_attempts of a loop that runs once
more_attempts_never(a) == FALSE

\* more_attempts of a loop over range(max_retries + 2)
more_attempts_one_more(a) == a + 1 < max_retries + 2

\* line 137: range(max_retries + 1) has a value after a
more_attempts(a) == a + 1 < max_retries + 1

\* line 143
translated_response_str(llm_response) == strip(llm_response)

\* final_translated_content that keeps the last response, valid or not
final_translated_content_last(valid, resp, ms) == resp

\* lines 134, 147-151: what line 163 appends
final_translated_content(valid, resp, ms) ==
  IF valid THEN resp ELSE chunk_content(ms)

\* lines 104-106
keep_preamble(preamble) == strip(preamble) # <<>>

\* EnsureNewline that leaves the text as it is
EnsureNewline_never(out) == out

\* lines 181-182
EnsureNewline(out) ==
  IF out # <<>> /\ out[Len(out)] # "NL" THEN out \o <<"NL">> ELSE out

\* lines 176-188: trailing text, join, final line feed, write, return
Finalize(tc, lme) ==
  LET final_part == Slice(content, lme, Len(content) + 1)
      parts == IF final_part # <<>> THEN append(tc, final_part) ELSE tc
  IN /\ translated_content' = parts
     /\ last_match_end' = lme
     /\ final_output' = EnsureNewline(join(parts))
     /\ writes' = writes + 1
     /\ returned' = "output_file_path"
     /\ pc' = "done"

\* AfterChunk that saves the document so far after every chunk
AfterChunk_write_through(tc, lme, from) ==
  IF from = "loop"
  THEN /\ translated_content' = tc
       /\ last_match_end' = lme
       /\ current_chunk_matches' = <<>>
       /\ pc' = "scan"
       /\ final_output' = join(tc)
       /\ writes' = writes + 1
       /\ UNCHANGED returned
  ELSE /\ Finalize(tc, lme)
       /\ UNCHANGED current_chunk_matches

\* process_chunk has returned to the place it was called from
AfterChunk(tc, lme, from) ==
  IF from = "loop"
  THEN /\ translated_content' = tc
       /\ last_match_end' = lme
       /\ current_chunk_matches' = <<>>
       /\ pc' = "scan"
       /\ UNCHANGED outputs
  ELSE /\ Finalize(tc, lme)
       /\ UNCHANGED current_chunk_matches

\* lines 129-131 and 148-164: the chunk is appended and its outcome logged
LogChunk(ms, status, emitted, cs) ==
  /\ chunk_log' = Append(chunk_log, [ms |-> ms, emitted |-> emitted])
  /\ last_chunk' = [ms |-> ms, text |-> chunk_content(ms), status |-> status,
                    emitted |-> emitted, calls |-> cs]

\* lines 115-135: process_chunk up to its first provider call
EnterChunk(ms, from) ==
  LET tc == append(translated_content,
                   Slice(content, last_match_end, chunk_start(ms)))
  IN IF ~has_text_to_translate(ms)
     THEN /\ AfterChunk(append(tc, chunk_content(ms)), chunk_end(ms), from)
          /\ LogChunk(ms, "Accepted", chunk_content(ms), <<>>)
          /\ UNCHANGED <<caller, attempt, calls>>
     ELSE /\ translated_content' = tc
          /\ current_chunk_matches' = ms
          /\ caller' = from
          /\ attempt' = 0
          /\ calls' = <<>>
          /\ pc' = "attempt"
          /\ last_chunk' = NoChunk
          /\ UNCHANGED <<last_match_end, outputs, chunk_log>>

\* ------------------------------------------------------------- actions
\* line 77-78
RaiseFileNotFound ==
  /\ pc = "call"
  /\ ~file_exists
  /\ pc' = "raised"
  /\ error' = "FileNotFoundError"
  /\ UNCHANGED <<inputs, translated_content, current_chunk_matches,
                 last_match_end, match_iter, caller, attempt, outputs,
                 calls, chunk_log, last_chunk, valid_vars, merge_vars, aux_vars>>

\* line 79-80
RaiseValueError ==
  /\ pc = "call"
  /\ file_exists
  /\ bad_chunk_size
  /\ pc' = "raised"
  /\ error' = "ValueError"
  /\ UNCHANGED <<inputs, translated_content, current_chunk_matches,
                 last_match_end, match_iter, caller, attempt, outputs,
                 calls, chunk_log, last_chunk, valid_vars, merge_vars, aux_vars>>

\* lines 93-107: read the file, keep the preamble, start the match loop
ReadInput ==
  /\ pc = "call"
  /\ file_exists
  /\ ~bad_chunk_size
  /\ LET ms == finditer(content)
     IN /\ match_iter' = ms
        /\ IF ms # <<>>
           THEN LET preamble == Slice(content, 1, ms[1].start)
                IN /\ translated_content' =
                        (IF keep_preamble(preamble)
                         THEN append(translated_content, preamble)
                         ELSE translated_content)
                   /\ last_match_end' = ms[1].start
           ELSE UNCHANGED <<translated_content, last_match_end>>
  /\ pc' = "scan"
  /\ UNCHANGED <<inputs, error, current_chunk_matches, caller, attempt,
                 outputs, calls, chunk_log, last_chunk, valid_vars, merge_vars, aux_vars>>

\* lines 166-170: one iteration of the match loop
ScanMatch ==
  /\ pc = "scan"
  /\ match_iter # <<>>
  /\ match_iter' = Tail(match_iter)
  /\ LET cur == Append(current_chunk_matches, Head(match_iter))
     IN IF chunk_full(cur)
        THEN EnterChunk(cur, "loop")
        ELSE /\ current_chunk_matches' = cur
             /\ UNCHANGED <<pc, translated_content, last_match_end, caller,
                            attempt, outputs, calls, chunk_log, last_chunk>>
  /\ UNCHANGED <<inputs, error, valid_vars, merge_vars, aux_vars>>

\* lines 172-188: the loop is over
ScanEnd ==
  /\ pc = "scan"
  /\ match_iter = <<>>
  /\ IF current_chunk_matches # <<>>
     THEN EnterChunk(current_chunk_matches, "tail")
     ELSE /\ Finalize(translated_content, last_match_end)
          /\ UNCHANGED <<current_chunk_matches, caller, attempt, calls,
                         chunk_log, last_chunk>>
  /\ UNCHANGED <<inputs, error, match_iter, valid_vars, merge_vars, aux_vars>>

\* lines 137-164: self.llm.generate returns llm_response
ProviderReturns ==
  /\ pc = "attempt"
  /\ \E llm_response \in Responses(chunk_content(current_chunk_matches)) :
       LET ms == current_chunk_matches
           resp == translated_response_str(llm_response)
           valid == is_valid_response(resp, content, ms)
           cs == Append(calls, [fallback |-> chunk_content(ms),
                                outcome |-> IF valid THEN "valid" ELSE "invalid"])
       IN IF ~valid /\ more_attempts(attempt)
          THEN /\ attempt' = attempt + 1
               /\ calls' = cs
               /\ UNCHANGED <<pc, translated_content, current_chunk_matches,
                              last_match_end, outputs, chunk_log,
                              last_chunk>>
          ELSE /\ AfterChunk(append(translated_content,
                                    final_translated_content(valid, resp, ms)),
                             chunk_end(ms), caller)
               /\ LogChunk(ms, IF valid THEN "Accepted" ELSE "FallenBack",
                           final_translated_content(valid, resp, ms), cs)
               /\ calls' = <<>>
               /\ attempt' = 0
  /\ UNCHANGED <<inputs, error, match_iter, caller, valid_vars, merge_vars, aux_vars>>

\* line 142 raises; lines 192-194 log and re-raise
ProviderRaises ==
  /\ pc = "attempt"
  /\ pc' = "raised"
  /\ error' = "Exception"
  /\ calls' = Append(calls, [fallback |-> chunk_content(current_chunk_matches),
                             outcome |-> "raised"])
  /\ UNCHANGED <<inputs, translated_content, current_chunk_matches,
                 last_match_end, match_iter, caller, attempt, outputs,
                 chunk_log, last_chunk, valid_vars, merge_vars, aux_vars>>

Next ==
  \/ RaiseFileNotFound
  \/ RaiseValueError
  \/ ReadInput
  \/ ScanMatch
  \/ ScanEnd
  \/ ProviderReturns
  \/ ProviderRaises

Spec == Init /\ [][Next]_vars

\* ------------------------------------ _is_valid_response on its own
Blank(c) ==
  [i \in 1..Len(c) |-> IF c[i] \in {"a", "b"} THEN "SP" ELSE c[i]]

\* responses to validate against the chunk ms of the text t
ValidationResponses(t, ms) ==
  LET c == IF ms = <<>> THEN t ELSE Slice(t, ms[1].start, ms[Len(ms)].end)
  IN Responses(c) \cup {strip(r) : r \in Responses(c)} \cup {Blank(c), t}

InitValid ==
  /\ file_exists = FALSE
  /\ content = <<>>
  /\ chunk_size = 0
  /\ max_retries = 0
  /\ TranslateIdle("idle")
  /\ v_pc = "ready"
  /\ v_text \in Docs
  /\ \E k \in 0..Len(finditer(v_text)) : v_matches = SubSeq(finditer(v_text), 1, k)
  /\ v_response \in ValidationResponses(v_text, v_matches)
  /\ v_verdict = FALSE
  /\ NoMerge
  /\ AuxIdle

\* lines 196-246
Validate ==
  /\ v_pc = "ready"
  /\ v_verdict' = is_valid_response(v_response, v_text, v_matches)
  /\ v_pc' = "validated"
  /\ UNCHANGED <<translate_vars, v_text, v_matches, v_response, merge_vars,
               aux_vars>>

NextValid == Validate

SpecValid == InitValid /\ [][NextValid]_vars

\* ------------------------------------ SubtitleProcessor.merge_segments
\* A segment is [start, end, text]: the times are numbers of a time unit,
\* the text a sequence of characters; a text that is None reads as the
\* empty text (line 32: ... or "").
Spans ==
  { [start |-> 0, end |-> 1], [start |-> 1, end |-> 4], [start |-> 3, end |-> 3] }

Texts ==
  { <<>>,
    <<"SP", "a", "SP">>,
    <<"b", ".">>,
    <<"a", "!", "SP">>,
    <<"a", "SP", "b", "?">> }

Segments ==
  {[start |-> sp.start, end |-> sp.end, text |-> t] : sp \in Spans, t \in Texts}

\* lists of at most n segments with non-decreasing start
RECURSIVE SegmentLists(_)
SegmentLists(n) ==
  IF n = 0 THEN {<<>>}
  ELSE LET shorter == SegmentLists(n - 1)
       IN shorter \cup
          { Append(p[1], p[2]) :
              p \in { q \in shorter \X Segments :
                        /\ Len(q[1]) = n - 1
                        /\ (q[1] = <<>> \/ q[1][Len(q[1])].start <= q[2].start) } }

Gaps == {0, 1}
CharLimits == {4, 9}
CharFloors == {0, 3}

\* line 11
end_punctuations == {<<".">>, <<"!">>, <<"?">>, <<".", ".", ".">>}

\* str.endswith
endswith(t, suffix) ==
  Len(suffix) <= Len(t) /\ SubSeq(t, Len(t) - Len(suffix) + 1, Len(t)) = suffix

\* lines 45-47
end_with_punc(text) ==
  LET last_char == IF text # <<>> THEN <<text[Len(text)]>> ELSE <<>>
  IN \/ last_char \in end_punctuations
     \/ \E punc \in end_punctuations : endswith(text, punc)

\* should_merge that looks at the punctuation before the gap and the length
should_merge_punct_first(cur, next_text, next_start) ==
  LET time_gap == next_start - cur.end
      estimated_length == Len(next_text) + Len(cur.text) + 1
  IN IF ~end_with_punc(cur.text) THEN TRUE
     ELSE IF time_gap > max_gap THEN FALSE
     ELSE IF estimated_length > max_chars THEN FALSE
     ELSE IF Len(cur.text) < min_chars THEN TRUE
     ELSE FALSE

\* lines 42-60
should_merge(cur, next_text, next_start) ==
  LET time_gap == next_start - cur.end
      estimated_length == Len(next_text) + Len(cur.text) + 1
  IN IF time_gap > max_gap THEN FALSE
     ELSE IF estimated_length > max_chars THEN FALSE
     ELSE IF ~end_with_punc(cur.text) THEN TRUE
     ELSE IF Len(cur.text) < min_chars THEN TRUE
     ELSE FALSE

\* merged_text that puts the next text in front
merged_text_swapped(text, next_text) == next_text \o <<"SP">> \o text

\* line 63
merged_text(text, next_text) == text \o <<"SP">> \o next_text

\* new_dict that writes into the dict current refers to
new_dict_reused(ds) == current

\* lines 67-71: current = {...} makes a dict of its own
new_dict(ds) == Len(ds) + 1

\* the dicts ds with the dict d stored under the reference r
store(ds, r, d) ==
  [k \in 1..(IF r > Len(ds) THEN r ELSE Len(ds)) |-> IF k = r THEN d ELSE ds[k]]

\* final_cues that forgets the cue in progress
final_cues_dropped(m, c) == m

\* line 73
final_cues(m, c) == Append(m, c)

InitMerge ==
  /\ file_exists = FALSE
  /\ content = <<>>
  /\ chunk_size = 0
  /\ max_retries = 0
  /\ TranslateIdle("idle")
  /\ ValidIdle
  /\ segments \in SegmentLists(MaxSegments)
  /\ max_gap \in Gaps
  /\ max_chars \in CharLimits
  /\ min_chars \in CharFloors
  /\ MergeIdle("call")
  /\ AuxIdle

\* lines 22-23
MergeEmpty ==
  /\ m_pc = "call"
  /\ segments = <<>>
  /\ merge_result' = <<>>
  /\ m_pc' = "returned"
  /\ UNCHANGED <<translate_vars, valid_vars, aux_vars, merge_inputs, seg_i, dicts,
                 current, merged>>

\* lines 25-33
MergeStart ==
  /\ m_pc = "call"
  /\ segments # <<>>
  /\ merged' = <<>>
  /\ dicts' = <<[start |-> segments[1].start, end |-> segments[1].end,
                 text |-> strip(segments[1].text)]>>
  /\ current' = 1
  /\ seg_i' = 2
  /\ m_pc' = "loop"
  /\ UNCHANGED <<translate_vars, valid_vars, aux_vars, merge_inputs, merge_result>>

\* lines 35-71: one iteration of the loop
MergeStep ==
  /\ m_pc = "loop"
  /\ seg_i <= Len(segments)
  /\ LET next_segment == segments[seg_i]
         next_text == strip(next_segment.text)
         next_start == next_segment.start
         next_end == next_segment.end
         cur == dicts[current]
     IN IF should_merge(cur, next_text, next_start)
        THEN /\ dicts' = store(dicts, current,
                               [start |-> cur.start, end |-> next_end,
                                text |-> merged_text(cur.text, next_text)])
             /\ UNCHANGED <<current, merged>>
        ELSE /\ merged' = Append(merged, current)
             /\ current' = new_dict(dicts)
             /\ dicts' = store(dicts, new_dict(dicts),
                               [start |-> next_start, end |-> next_end,
                                text |-> next_text])
  /\ seg_i' = seg_i + 1
  /\ UNCHANGED <<translate_vars, valid_vars, aux_vars, merge_inputs, m_pc, merge_result>>

\* lines 73-74
MergeReturn ==
  /\ m_pc = "loop"
  /\ seg_i > Len(segments)
  /\ merged' = final_cues(merged, current)
  /\ merge_result' = [k \in 1..Len(merged') |-> dicts[merged'[k]]]
  /\ m_pc' = "returned"
  /\ UNCHANGED <<translate_vars, valid_vars, aux_vars, merge_inputs, seg_i, dicts, current>>

NextMerge ==
  \/ MergeEmpty
  \/ MergeStart
  \/ MergeStep
  \/ MergeReturn

SpecMerge == InitMerge /\ [][NextMerge]_vars


\* ------------------------------------------- vocabulary of the claims
\* the (index, timestamp line) pairs of the blocks of a text, both trimmed
Pairs(s) ==
  LET ms == finditer(s)
  IN [i \in 1..Len(ms) |-> <<strip(group(s, ms[i], 1)), strip(group(s, ms[i], 2))>>]

RECURSIVE LoggedMatches(_)
LoggedMatches(log) ==
  IF log = <<>> THEN <<>> ELSE Head(log).ms \o LoggedMatches(Tail(log))

IsPrefix(a, b) == Len(a) <= Len(b) /\ SubSeq(b, 1, Len(a)) = a

BodyBlank(m) == strip(group(content, m, 3)) = <<>>

ChunkHasText(ms) == \E i \in 1..Len(ms) : ~BodyBlank(ms[i])

SourceText(ms) == Slice(content, ms[1].start, ms[Len(ms)].end)

\* the source with every chunk span replaced by the text logged for it
RECURSIVE Reassembled(_, _)
Reassembled(log, pos) ==
  IF log = <<>> THEN Slice(content, pos, Len(content) + 1)
  ELSE Slice(content, pos, Head(log).ms[1].start) \o Head(log).emitted
       \o Reassembled(Tail(log), Head(log).ms[Len(Head(log).ms)].end)

AllInvalid(cs) == \A i \in 1..Len(cs) : cs[i].outcome = "invalid"

\* C1: when the run is done, the output is non-empty if the input is, and
\* the (index, timestamp line) pairs of the blocks of the output are those
\* of the blocks of the input, each once and in the original order.
C1_OutputKeepsPairs ==
  pc = "done" =>
    /\ (content # <<>> => final_output # <<>>)
    /\ Pairs(final_output) = Pairs(content)

\* C2: a chunk whose max_retries+1 responses all failed validation is
\* appended as its original text, nothing is raised, the chunks after it
\* are processed too and the run returns the output path.
C2_FallbackContinues ==
  /\ last_chunk.status = "FallenBack" =>
       /\ Len(last_chunk.calls) = max_retries + 1
       /\ AllInvalid(last_chunk.calls)
       /\ last_chunk.emitted = SourceText(last_chunk.ms)
       /\ chunk_log[Len(chunk_log)].emitted = SourceText(last_chunk.ms)
       /\ pc \in {"scan", "done"}
       /\ error = "none"
  /\ (last_chunk # NoChunk /\ Len(last_chunk.calls) = max_retries + 1
        /\ AllInvalid(last_chunk.calls)) => last_chunk.status = "FallenBack"
  /\ (pc = "attempt" /\ calls # <<>>) => AllInvalid(calls) /\ error = "none"
  /\ pc = "done" =>
       /\ returned = "output_file_path"
       /\ error = "none"
       /\ LoggedMatches(chunk_log) = finditer(content)

C2_Witness ==
  /\ pc = "done"
  /\ Len(chunk_log) >= 2
  /\ last_chunk.status = "FallenBack"
  /\ chunk_log[1].emitted # SourceText(chunk_log[1].ms)

C2_WitnessGoesOn ==
  /\ pc = "scan"
  /\ last_chunk.status = "FallenBack"
  /\ match_iter # <<>>


\* the provider calls cs made for a chunk with source text t: each got t as
\* its fallback, there are at most max_retries+1, and only the last one may
\* have had another outcome than a failed validation
CallsInOrder(cs, t) ==
  /\ Len(cs) <= max_retries + 1
  /\ \A i \in 1..Len(cs) : cs[i].fallback = t
  /\ \A i \in 1..(Len(cs) - 1) : cs[i].outcome = "invalid"

\* C4: a chunk with text gets at least one and at most max_retries+1
\* provider calls, each with the chunk's own text as fallback; a call follows
\* only calls whose response failed validation, none follows an accepted one.
C4_CallsBounded ==
  /\ pc = "attempt" =>
       /\ CallsInOrder(calls, SourceText(current_chunk_matches))
       /\ AllInvalid(calls)
       /\ Len(calls) <= max_retries
  /\ (pc = "raised" /\ error = "Exception") =>
       /\ CallsInOrder(calls, SourceText(current_chunk_matches))
       /\ Len(calls) >= 1
  /\ (last_chunk # NoChunk /\ ChunkHasText(last_chunk.ms)) =>
       /\ CallsInOrder(last_chunk.calls, SourceText(last_chunk.ms))
       /\ Len(last_chunk.calls) >= 1
       /\ last_chunk.calls[Len(last_chunk.calls)].outcome \in {"valid", "invalid"}
       /\ (last_chunk.calls[Len(last_chunk.calls)].outcome = "invalid"
             => Len(last_chunk.calls) = max_retries + 1)

C4_Witness ==
  /\ last_chunk.status = "Accepted"
  /\ max_retries >= 1
  /\ Len(last_chunk.calls) = max_retries + 1
  /\ Len(chunk_log) >= 2

\* C5: a provider call that raises is handled like a failed validation, so
\* the run never ends with the provider's exception.
C5_ProviderErrorRetried ==
  ~(pc = "raised" /\ error = "Exception")

\* C6: a chunk ends as Accepted or as FallenBack; an Accepted chunk emitted
\* its unchanged source text without any call (no text) or a response that
\* passes validation against it, a FallenBack chunk its original text.
C6_TerminalStates ==
  /\ (pc \in {"scan", "done"} /\ chunk_log # <<>>) =>
       /\ last_chunk.ms = chunk_log[Len(chunk_log)].ms
       /\ last_chunk.emitted = chunk_log[Len(chunk_log)].emitted
  /\ last_chunk # NoChunk =>
       /\ last_chunk.status \in {"Accepted", "FallenBack"}
       /\ last_chunk.status = "Accepted" =>
            IF last_chunk.calls = <<>>
            THEN /\ ~ChunkHasText(last_chunk.ms)
                 /\ last_chunk.emitted = SourceText(last_chunk.ms)
            ELSE /\ last_chunk.calls[Len(last_chunk.calls)].outcome = "valid"
                 /\ is_valid_response(last_chunk.emitted, content, last_chunk.ms)
       /\ last_chunk.status = "FallenBack" =>
            /\ last_chunk.emitted = SourceText(last_chunk.ms)
            /\ AllInvalid(last_chunk.calls)

C6_Witness ==
  /\ pc = "done"
  /\ last_chunk.status = "Accepted"
  /\ last_chunk.calls # <<>>
  /\ last_chunk.emitted # SourceText(last_chunk.ms)
  /\ Len(chunk_log) >= 2
  /\ chunk_log[1].emitted = SourceText(chunk_log[1].ms)

\* the fragments appended for the logged chunks, in the order of the log:
\* the source text between the chunk before and the chunk, then its text
RECURSIVE Fragments(_, _)
Fragments(log, pos) ==
  IF log = <<>> THEN <<>>
  ELSE <<Slice(content, pos, Head(log).ms[1].start), Head(log).emitted>>
       \o Fragments(Tail(log), Head(log).ms[Len(Head(log).ms)].end)

IsSuffix(a, b) == Len(a) <= Len(b) /\ SubSeq(b, Len(b) - Len(a) + 1, Len(b)) = a

ChunkFirst(c) == c.ms[1].start
ChunkLast(c) == c.ms[Len(c.ms)].end

\* C7: chunks are processed and appended in document order: the logged
\* chunks lie one after the other in the document, a chunk gets provider
\* calls only when every block before it is in a logged chunk, and the
\* fragments of the output are those of the logged chunks in the order of
\* the log.
C7_DocumentOrder ==
  /\ \A k \in 1..(Len(chunk_log) - 1) :
       ChunkLast(chunk_log[k]) <= ChunkFirst(chunk_log[k + 1])
  /\ pc = "attempt" =>
       /\ IsPrefix(LoggedMatches(chunk_log) \o current_chunk_matches,
                   finditer(content))
       /\ chunk_log # <<>> =>
            ChunkLast(chunk_log[Len(chunk_log)]) <= current_chunk_matches[1].start
       /\ Len(translated_content) >= 1
       /\ chunk_log # <<>> =>
            IsSuffix(Fragments(chunk_log, ChunkFirst(chunk_log[1])),
                     SubSeq(translated_content, 1, Len(translated_content) - 1))
  /\ pc = "scan" /\ chunk_log # <<>> =>
       IsSuffix(Fragments(chunk_log, ChunkFirst(chunk_log[1])),
                translated_content)
  /\ pc = "done" /\ chunk_log # <<>> =>
       \/ IsSuffix(Fragments(chunk_log, ChunkFirst(chunk_log[1])),
                   translated_content)
       \/ IsSuffix(Fragments(chunk_log, ChunkFirst(chunk_log[1])),
                   SubSeq(translated_content, 1, Len(translated_content) - 1))

C7_Witness ==
  /\ pc = "attempt"
  /\ Len(chunk_log) >= 2
  /\ calls # <<>>
  /\ chunk_log[1].emitted # chunk_log[2].emitted

\* C8: the output is the source with each chunk span replaced by the text
\* emitted for that chunk: the text before the first block, between chunks
\* and after the last block is copied verbatim, once, in place (a final
\* line feed may be added).
C8_SourceCovered ==
  pc = "done" =>
    \/ final_output = Reassembled(chunk_log, 1)
    \/ final_output = Reassembled(chunk_log, 1) \o <<"NL">>

\* C9: the chunks are runs of consecutive blocks in document order, every
\* block is in exactly one chunk, no chunk is empty, every chunk but the
\* last has chunk_size blocks and the last has 1..chunk_size.
C9_Grouping ==
  /\ \A k \in 1..Len(chunk_log) :
       /\ Len(chunk_log[k].ms) >= 1
       /\ Len(chunk_log[k].ms) <= chunk_size
       /\ k < Len(chunk_log) => Len(chunk_log[k].ms) = chunk_size
  /\ (chunk_log # <<>> /\ Len(chunk_log[Len(chunk_log)].ms) < chunk_size)
       => pc = "done"
  /\ pc = "attempt" =>
       /\ Len(current_chunk_matches) >= 1
       /\ Len(current_chunk_matches) <= chunk_size
       /\ (Len(current_chunk_matches) < chunk_size => match_iter = <<>>)
  /\ pc = "done" => LoggedMatches(chunk_log) = finditer(content)

C9_Witness ==
  /\ pc = "done"
  /\ chunk_size = 2
  /\ Len(chunk_log) = 2
  /\ Len(chunk_log[1].ms) = 2
  /\ Len(chunk_log[2].ms) = 1

\* C10: a chunk none of whose blocks has a non-blank body gets no provider
\* call and its source text is appended unchanged.
C10_BlankChunkSkipped ==
  /\ pc = "attempt" => ChunkHasText(current_chunk_matches)
  /\ (last_chunk # NoChunk /\ ~ChunkHasText(last_chunk.ms)) =>
       /\ last_chunk.calls = <<>>
       /\ last_chunk.emitted = SourceText(last_chunk.ms)
       /\ translated_content # <<>>
       /\ \/ translated_content[Len(translated_content)] = SourceText(last_chunk.ms)
          \/ /\ pc = "done"
             /\ Len(translated_content) >= 2
             /\ translated_content[Len(translated_content) - 1] =
                  SourceText(last_chunk.ms)

C10_Witness ==
  /\ last_chunk # NoChunk
  /\ ~ChunkHasText(last_chunk.ms)
  /\ Len(chunk_log) >= 2
  /\ pc = "done"


\* C3: a non-empty response for a chunk of n >= 1 blocks is accepted exactly
\* when it re-parses into n blocks whose trimmed index lines and trimmed
\* timestamp lines equal the original's, position by position, and whose
\* body is non-blank wherever the original's is; an empty response is
\* accepted only for a chunk of zero blocks.
C3_ValidationRule ==
  v_pc = "validated" =>
    LET n == Len(v_matches)
        tms == finditer(v_response)
        Same(i) ==
          /\ strip(group(v_response, tms[i], 1)) = strip(group(v_text, v_matches[i], 1))
          /\ strip(group(v_response, tms[i], 2)) = strip(group(v_text, v_matches[i], 2))
          /\ (strip(group(v_text, v_matches[i], 3)) # <<>>
                => strip(group(v_response, tms[i], 3)) # <<>>)
    IN /\ (v_response # <<>> /\ n >= 1) =>
            (v_verdict <=> (Len(tms) = n /\ \A i \in 1..n : Same(i)))
       /\ (v_response = <<>> /\ v_verdict) => n = 0

C3_Witness ==
  /\ v_pc = "validated"
  /\ v_verdict
  /\ Len(v_matches) >= 2
  /\ v_response # Slice(v_text, v_matches[1].start, v_matches[Len(v_matches)].end)

C3_WitnessBlankBody ==
  /\ v_pc = "validated"
  /\ ~v_verdict
  /\ Len(v_matches) >= 1
  /\ Len(finditer(v_response)) = Len(v_matches)
  /\ Pairs(v_response) = SubSeq(Pairs(v_text), 1, Len(v_matches))

\* a occurs in b as a run of consecutive tokens
Occurs(a, b) ==
  \E k \in 1..(Len(b) - Len(a) + 1) : SubSeq(b, k, k + Len(a) - 1) = a

BlockText(m) == Slice(content, m.start, m.end)

\* C11: a block whose body is blank is never part of a chunk the provider
\* is called for, and the text appended for its chunk holds the block's
\* source text unchanged, whatever the other blocks of the chunk are.
C11_BlankBlockUntouched ==
  /\ pc = "attempt" =>
       \A i \in 1..Len(current_chunk_matches) :
         ~BodyBlank(current_chunk_matches[i])
  /\ last_chunk # NoChunk =>
       \A i \in 1..Len(last_chunk.ms) :
         BodyBlank(last_chunk.ms[i]) =>
           Occurs(BlockText(last_chunk.ms[i]), last_chunk.emitted)

\* C12: when the document has no block, no provider call is made (a call
\* is made only for a chunk that starts at a block of the document, and a
\* run without blocks ends with no chunk processed), nothing is raised, the
\* run returns, and the output is the input with a line feed added when the
\* input is non-empty and does not end with one.
C12_ZeroBlocksCopied ==
  /\ pc = "attempt" =>
       subtitle_block_regex(content, current_chunk_matches[1].start) # NoMatch
  /\ (pc = "raised" /\ file_exists /\ chunk_size > 0)
       => finditer(content) # <<>>
  /\ (pc = "done" /\ finditer(content) = <<>>) =>
       /\ chunk_log = <<>>
       /\ last_chunk = NoChunk
       /\ calls = <<>>
       /\ error = "none"
       /\ returned = "output_file_path"
       /\ writes = 1
       /\ final_output = IF content # <<>> /\ content[Len(content)] # "NL"
                         THEN content \o <<"NL">> ELSE content

C12_Witness ==
  /\ pc = "done"
  /\ content # <<>>
  /\ finditer(content) = <<>>
  /\ final_output = content \o <<"NL">>

\* C12 as stated: with no block the output is the input, unchanged
C12_ZeroBlocksUnchanged ==
  (pc = "done" /\ finditer(content) = <<>>) => final_output = content

\* C13: a non-empty output ends with a line feed and not with two of them.
C13_OneTrailingNewline ==
  (pc = "done" /\ final_output # <<>>) =>
    /\ final_output[Len(final_output)] = "NL"
    /\ (Len(final_output) >= 2 => final_output[Len(final_output) - 1] # "NL")

\* nothing of a run has happened: no provider call, no chunk, no output
NothingDone ==
  /\ calls = <<>>
  /\ attempt = 0
  /\ chunk_log = <<>>
  /\ translated_content = <<>>
  /\ final_output = <<>>
  /\ writes = 0
  /\ returned = ""

\* C14: with a missing input file the call raises FileNotFoundError, with
\* a chunk_size <= 0 (and the file present) ValueError; in both cases no
\* provider call was made, no output was written, and the raise is final:
\* no step follows it.
C14_InputErrors ==
  /\ (pc # "call" /\ ~file_exists) =>
       pc = "raised" /\ error = "FileNotFoundError" /\ NothingDone
  /\ (pc # "call" /\ file_exists /\ chunk_size <= 0) =>
       pc = "raised" /\ error = "ValueError" /\ NothingDone
  /\ (pc = "raised" /\ error \in {"FileNotFoundError", "ValueError"}) =>
       /\ ~file_exists \/ chunk_size <= 0
       /\ ~ENABLED Next

C14_Witness ==
  /\ pc = "raised"
  /\ error = "ValueError"
  /\ chunk_size <= 0
  /\ finditer(content) # <<>>

C14_WitnessMissingFile ==
  /\ pc = "raised"
  /\ error = "FileNotFoundError"
  /\ chunk_size <= 0

\* ------------------------------------ vocabulary of the merge claims
\* the text ends with ".", "!", "?" or "..."
EndsSentence(t) ==
  \/ (t # <<>> /\ t[Len(t)] \in {".", "!", "?"})
  \/ (Len(t) >= 3 /\ SubSeq(t, Len(t) - 2, Len(t)) = <<".", ".", ".">>)

\* the loop is about to handle segments[seg_i]
AtSegment == m_pc = "loop" /\ seg_i <= Len(segments)

\* the step taken merged the segment into the current cue
MergedIn == seg_i' = seg_i + 1 /\ current' = current /\ merged' = merged

\* the step taken closed the current cue and began another
BeganCue == seg_i' = seg_i + 1 /\ merged' = Append(merged, current)

\* C15: a step of the loop merges the next segment into the current cue
\* exactly when gap = next.start - current.end is not greater than max_gap,
\* and len(current.text) + 1 + len(next.text) is not greater than max_chars,
\* and current.text does not end a sentence or is shorter than min_chars;
\* otherwise it closes the cue. next.text is the segment's text as the loop
\* reads it, trimmed (line 38).
C15_MergeDecision ==
  [][ AtSegment =>
        LET cur == dicts[current]
            nxt == segments[seg_i]
            gap == nxt.start - cur.end
            fits == Len(cur.text) + 1 + Len(strip(nxt.text)) <= max_chars
            open == ~EndsSentence(cur.text) \/ Len(cur.text) < min_chars
        IN IF gap <= max_gap /\ fits /\ open
           THEN MergedIn /\ ~BeganCue
           ELSE BeganCue /\ ~MergedIn ]_vars

\* a run in which a segment was merged after a sentence end (the cue was
\* shorter than min_chars) and a segment was kept apart by its gap
C15_Witness ==
  /\ m_pc = "returned"
  /\ Len(segments) = 3
  /\ Len(merge_result) = 2
  /\ max_gap = 1
  /\ merge_result[1].text = <<"b", ".", "SP", "a">>
  /\ segments[3].start - merge_result[1].end > max_gap

\* C16: a merge step leaves the current cue in place with " " and the next
\* (trimmed) text appended and its end set to next.end, its start as it was,
\* and emits nothing; a non-merge step emits the current cue as it is and
\* makes a new current cue with the next segment's start, end and trimmed
\* text; no step changes a cue emitted before it, nor the input.
C16_StepEffects ==
  [][ /\ AtSegment =>
           LET cur == dicts[current]
               nxt == segments[seg_i]
           IN \/ /\ MergedIn
                 /\ dicts'[current] =
                      [start |-> cur.start, end |-> nxt.end,
                       text |-> cur.text \o <<"SP">> \o strip(nxt.text)]
              \/ /\ BeganCue
                 /\ dicts'[current] = cur
                 /\ current' # current
                 /\ \A k \in 1..Len(merged') : merged'[k] # current'
                 /\ dicts'[current'] =
                      [start |-> nxt.start, end |-> nxt.end,
                       text |-> strip(nxt.text)]
      /\ \A k \in 1..Len(merged) :
           /\ k <= Len(merged')
           /\ merged'[k] = merged[k]
           /\ dicts'[merged[k]] = dicts[merged[k]]
      /\ segments' = segments ]_vars

\* the second segment began a cue, the third was merged into it
C16_Witness ==
  /\ m_pc = "loop"
  /\ seg_i = 4
  /\ Len(merged) = 1
  /\ dicts[merged[1]].text # <<>>
  /\ dicts[current].start = segments[2].start
  /\ dicts[current].end = segments[3].end
  /\ dicts[current].text =
       strip(segments[2].text) \o <<"SP">> \o strip(segments[3].text)

\* the trimmed texts of segments a..b joined by single spaces
RECURSIVE RunText(_, _)
RunText(a, b) ==
  IF a = b THEN strip(segments[a].text)
  ELSE RunText(a, b - 1) \o <<"SP">> \o strip(segments[b].text)

\* the cue made of the run of segments a..b
RunCue(a, b) ==
  [start |-> segments[a].start, end |-> segments[b].end, text |-> RunText(a, b)]

\* the end of the run that starts at a, when the runs of segments 1..n end
\* at the positions in cuts and at n
RunLast(a, cuts, n) ==
  CHOOSE b \in a..n :
    /\ b \in cuts \cup {n}
    /\ \A k \in a..(b - 1) : k \notin cuts

\* the cues of the consecutive runs that partition segments a..n
RECURSIVE RunCues(_, _, _)
RunCues(a, cuts, n) ==
  IF a > n THEN <<>>
  ELSE <<RunCue(a, RunLast(a, cuts, n))>>
       \o RunCues(RunLast(a, cuts, n) + 1, cuts, n)

\* cues are the cues of some partition of segments 1..n into consecutive runs
PartitionsInput(cues, n) ==
  \E cuts \in SUBSET (1..(n - 1)) :
    /\ Cardinality(cuts) + 1 = Len(cues)
    /\ cues = RunCues(1, cuts, n)

\* C17: empty input gives an empty list; n >= 1 segments give between 1 and
\* n cues, which are the cues of consecutive runs of segments that partition
\* the input in order, a segment with an empty text included; the same holds
\* of the cues built so far at every point of the loop.
C17_Partition ==
  /\ m_pc = "returned" =>
       IF segments = <<>> THEN merge_result = <<>>
       ELSE /\ Len(merge_result) >= 1
            /\ Len(merge_result) <= Len(segments)
            /\ PartitionsInput(merge_result, Len(segments))
  /\ m_pc = "loop" =>
       PartitionsInput([k \in 1..(Len(merged) + 1) |->
                          IF k <= Len(merged) THEN dicts[merged[k]]
                          ELSE dicts[current]],
                       seg_i - 1)

C17_Witness ==
  /\ m_pc = "returned"
  /\ Len(segments) = 3
  /\ segments[2].text = <<>>
  /\ segments[1].text # <<>>
  /\ Len(merge_result) = 2
  /\ merge_result[2].text = strip(segments[3].text)

\* the text with its whitespace removed
NoWhite(t) == SelectSeq(t, LAMBDA c : c \notin White)

\* the texts of a list of segments or cues, one after the other
RECURSIVE AllText(_)
AllText(list) ==
  IF list = <<>> THEN <<>> ELSE Head(list).text \o AllText(Tail(list))

\* C18: the texts of the cues returned, concatenated and with whitespace
\* removed, are the texts of the input segments, concatenated and with
\* whitespace removed: the same characters in the same order.
C18_TextConserved ==
  m_pc = "returned" =>
    NoWhite(AllText(merge_result)) = NoWhite(AllText(segments))

C18_Witness ==
  /\ m_pc = "returned"
  /\ Len(segments) = 3
  /\ Len(merge_result) = 2
  /\ segments[1].text = <<"SP", "a", "SP">>
  /\ segments[2].text = <<"a", "SP", "b", "?">>
  /\ merge_result[1].text = <<"a", "SP", "a", "SP", "b", "?">>
  /\ segments[3].text # <<>>

\* the input contract: end >= start, and start never decreases
WellOrdered(segs) ==
  /\ \A k \in 1..Len(segs) : segs[k].end >= segs[k].start
  /\ \A k \in 1..(Len(segs) - 1) : segs[k].start <= segs[k + 1].start

\* C19: for a non-empty input with end >= start and non-decreasing start,
\* the first cue starts where the first segment starts, the last cue ends
\* where the last segment ends, the cues are ordered by start and each cue
\* ends no later than the next one starts.
C19_SpanConserved ==
  (m_pc = "returned" /\ segments # <<>> /\ WellOrdered(segments)) =>
    /\ merge_result # <<>>
    /\ merge_result[1].start = segments[1].start
    /\ merge_result[Len(merge_result)].end = segments[Len(segments)].end
    /\ \A k \in 1..(Len(merge_result) - 1) :
         /\ merge_result[k].start <= merge_result[k + 1].start
         /\ merge_result[k].end <= merge_result[k + 1].start

\* the runs <<first, last>> that partition segments a..n, ending at cuts
RECURSIVE Runs(_, _, _)
Runs(a, cuts, n) ==
  IF a > n THEN <<>>
  ELSE <<<<a, RunLast(a, cuts, n)>>>> \o Runs(RunLast(a, cuts, n) + 1, cuts, n)

\* the cue spans exactly the segments a..b
SpansRun(cue, a, b) ==
  /\ \A k \in a..b : cue.start <= segments[k].start /\ segments[k].end <= cue.end
  /\ \E k \in a..b : cue.start = segments[k].start
  /\ \E k \in a..b : cue.end = segments[k].end

\* the cue's text is the texts of segments a..b joined by single spaces,
\* without whitespace at either end
JoinsRun(cue, a, b) ==
  /\ cue.text = RunText(a, b)
  /\ strip(cue.text) = cue.text

\* C20: the cues returned are those of consecutive runs of segments, each
\* with the least start and the greatest end of its run and with the run's
\* texts joined by single spaces, no whitespace leading or trailing.
C20_CueOfRun ==
  (m_pc = "returned" /\ segments # <<>>) =>
    \E cuts \in SUBSET (1..(Len(segments) - 1)) :
      LET runs == Runs(1, cuts, Len(segments))
      IN /\ Len(runs) = Len(merge_result)
         /\ \A k \in 1..Len(runs) :
              /\ SpansRun(merge_result[k], runs[k][1], runs[k][2])
              /\ JoinsRun(merge_result[k], runs[k][1], runs[k][2])

\* C21: with max_gap = 0 no segment is merged: the list returned has one cue
\* per input segment, with that segment's start, end and trimmed text.
C21_NoMergeAtZeroGap ==
  (m_pc = "returned" /\ max_gap = 0) =>
    /\ Len(merge_result) = Len(segments)
    /\ \A k \in 1..Len(segments) :
         merge_result[k] = [start |-> segments[k].start,
                            end |-> segments[k].end,
                            text |-> strip(segments[k].text)]

\* ------------------------------------------------ scanning a document
\* Blocks as the comment of lines 29-34 describes them: an optional index
\* line, a timestamp line, one or more lines of text.
WellFormedBlocks ==
  { [index |-> <<"1", "NL">>,
     stamp |-> <<"H1", "0", "0", "0", "NL">>,
     body  |-> <<"a">>],
    [index |-> <<>>,
     stamp |-> <<"H2", "0", "0", "1", "NL">>,
     body  |-> <<"b", "SP", "a", "NL", "b">>],
    [index |-> <<"1", "0", "SP", "NL">>,
     stamp |-> <<"H2", "0", "1", "0", "SP", "NL">>,
     body  |-> <<"1">>],
    [index |-> <<>>,
     stamp |-> <<"H1", "0", "0", "1", "NL">>,
     body  |-> <<"1", "NL", "a", "!">>] }

\* one blank line, or two
BlankLines == { <<"NL", "NL">>, <<"NL", "NL", "NL">> }

\* the document ends with its last block, or with one line feed after it
DocEnds == { <<>>, <<"NL">> }

block_text(b) == b.index \o b.stamp \o b.body

RECURSIVE concat_blocks(_, _)
concat_blocks(bs, sep) ==
  IF bs = <<>> THEN <<>>
  ELSE IF Len(bs) = 1 THEN block_text(bs[1])
  ELSE block_text(bs[1]) \o sep \o concat_blocks(Tail(bs), sep)

scan_doc == concat_blocks(sc_blocks, sc_sep) \o sc_end

InitScan ==
  /\ \E n \in 1..MaxBlocks : sc_blocks \in [1..n -> WellFormedBlocks]
  /\ sc_sep \in BlankLines
  /\ sc_end \in DocEnds
  /\ sc_pc = "built"
  /\ sc_found = <<>>
  /\ CoreIdle
  /\ FormatIdle
  /\ ProvidersIdle
  /\ NotCancelled
  /\ HybridIdle
  /\ AppIdle

\* list(self.subtitle_block_regex.finditer(document))
Scan ==
  /\ sc_pc = "built"
  /\ sc_found' = finditer(scan_doc)
  /\ sc_pc' = "scanned"
  /\ UNCHANGED <<not_scan, sc_blocks, sc_sep, sc_end>>

NextScan == Scan

SpecScan == InitScan /\ [][NextScan]_vars

\* where block k starts in the document, and where it stops
block_start(k) ==
  Len(concat_blocks(SubSeq(sc_blocks, 1, k - 1), sc_sep))
    + (IF k > 1 THEN Len(sc_sep) ELSE 0) + 1

block_stop(k) ==
  IF k = Len(sc_blocks) THEN Len(scan_doc) + 1
  ELSE block_start(k) + Len(block_text(sc_blocks[k]))

\* the spans of the matches and the text between two of them, in order
RECURSIVE spans_and_gaps(_, _)
spans_and_gaps(doc, ms) ==
  IF ms = <<>> THEN <<>>
  ELSE IF Len(ms) = 1 THEN Slice(doc, ms[1].start, ms[1].end)
  ELSE Slice(doc, ms[1].start, ms[2].start) \o spans_and_gaps(doc, Tail(ms))

Scale == 10000

RECURSIVE Pow2(_)
Pow2(n) == IF n = 0 THEN 1 ELSE 2 * Pow2(n - 1)

\* 2^n modulo Scale
RECURSIVE Pow2Mod(_)
Pow2Mod(n) == IF n = 0 THEN 1 ELSE (2 * Pow2Mod(n - 1)) % Scale

RECURSIVE floor_log2(_)
floor_log2(n) == IF n < 2 THEN 0 ELSE 1 + floor_log2(n \div 2)

\* the least k with fr * 2^k >= Scale, for 0 < fr < Scale
RECURSIVE doublings(_)
doublings(fr) == IF fr >= Scale THEN 0 ELSE 1 + doublings(2 * fr)

\* the binary exponent of the float nearest to u / Scale, u > 0
float_exponent(u) ==
  IF u \div Scale >= 1 THEN floor_log2(u \div Scale)
  ELSE 0 - doublings(u % Scale)

\* the exponent of the floats just below the whole number n >= 1
exponent_below(n) ==
  IF Pow2(floor_log2(n)) = n THEN floor_log2(n) - 1 ELSE floor_log2(n)

\* int((seconds - int(seconds)) * 1000), line 152. A float has 53
\* significant bits; with exponent e, 52 - e of them hold the fraction, and
\* rem / Scale is the part of the last bit that the nearest float drops
\* (rem < Scale / 2) or adds (rem > Scale / 2). The subtraction is exact.
\* The product is the nearest float to 1000 times the stored fraction: for
\* a whole number ms of milliseconds whose float lies below it, the product
\* is ms only when the shortfall is at most half the spacing of the floats
\* below ms, and otherwise a float below ms, which int() cuts to ms - 1.
millis(u) ==
  LET fr == u % Scale
      ms == fr \div 10
      e == float_exponent(u)
      rem == (fr * Pow2Mod(52 - e)) % Scale
      k == 1 + e - exponent_below(ms)
      back == IF k >= 0 THEN k <= 4 /\ rem <= 10 \div Pow2(k)
              ELSE rem <= 10 * Pow2(0 - k)
  IN IF fr = 0 \/ fr % 10 # 0 THEN ms
     ELSE IF rem = 0 \/ rem > Scale \div 2 THEN ms
     ELSE IF back THEN ms ELSE ms - 1

\* lines 149-151: exact for a float this close to u / Scale
hours(u) == (u \div Scale) \div 3600
minutes(u) == ((u \div Scale) % 3600) \div 60
secs(u) == (u \div Scale) % 60

DecimalDigits == <<"0", "1", "2", "3", "4", "5", "6", "7", "8", "9">>

RECURSIVE decimal(_)
decimal(n) ==
  IF n < 10 THEN <<DecimalDigits[n + 1]>>
  ELSE decimal(n \div 10) \o <<DecimalDigits[(n % 10) + 1]>>

\* f"{n:0wd}"
zero_padded(n, w) ==
  LET d == decimal(n)
  IN IF Len(d) >= w THEN d ELSE [i \in 1..(w - Len(d)) |-> "0"] \o d

\* line 153
timestamp_string(h, m, s, ms) ==
  zero_padded(h, 2) \o <<":">> \o zero_padded(m, 2) \o <<":">>
    \o zero_padded(s, 2) \o <<",">> \o zero_padded(ms, 3)

format_timestamp(u) ==
  timestamp_string(hours(u), minutes(u), secs(u), millis(u))

\* times of whole milliseconds from 0, 1 s, 59.9 s, 3599.9 s and 3661.2 s
\* on, and 59.9999 s
TimeBases == {0, 10000, 599000, 35999000, 36612000}
Times == { b + 10 * k : b \in TimeBases, k \in 0..MaxMillis } \cup {599999}

InitFormat ==
  /\ ft_seconds \in Times
  /\ ft_pc = "call"
  /\ ft_result = <<>>
  /\ CoreIdle
  /\ ScanIdle
  /\ ProvidersIdle
  /\ NotCancelled
  /\ HybridIdle
  /\ AppIdle

FormatTimestamp ==
  /\ ft_pc = "call"
  /\ ft_result' = format_timestamp(ft_seconds)
  /\ ft_pc' = "returned"
  /\ UNCHANGED <<not_format, ft_seconds>>

NextFormat == FormatTimestamp

SpecFormat == InitFormat /\ [][NextFormat]_vars

\* C23: for a time of t whole milliseconds the string returned is
\* HH:MM:SS,mmm with hours = t div 3600000, minutes = (t div 60000) mod 60,
\* seconds = (t div 1000) mod 60 and milliseconds = t mod 1000, and 59.9999
\* gives 00:00:59,999 (3661.234 and 0.0 are among the whole milliseconds).
C23_FormatTimestamp ==
  ft_pc = "returned" =>
    /\ ft_seconds % 10 = 0 =>
         LET t == ft_seconds \div 10
         IN ft_result = timestamp_string(t \div 3600000, (t \div 60000) % 60,
                                         (t \div 1000) % 60, t % 1000)
    /\ ft_seconds = 599999 =>
         ft_result = <<"0", "0", ":", "0", "0", ":", "5", "9", ",", "9", "9", "9">>

\* ------------------------------------------- translation providers
\* JSON values, as json.loads returns them
Obj(fields) == [type |-> "object", fields |-> fields]
Arr(elems) == [type |-> "array", elems |-> elems]
Num == [type |-> "number"]

Item1 == Obj([id |-> "1", start |-> "t0", end |-> "t1", text |-> "a"])
\* an object without "start" and "end"
Item2 == Obj([id |-> "2", text |-> "b"])

\* what the model sends back: nothing, text that is not JSON, JSON, or
\* JSON inside a ```json fence
Contents ==
  { [form |-> "empty"],
    [form |-> "prose"],
    [form |-> "json", value |-> Arr(<<Item1>>)],
    [form |-> "json", value |-> Arr(<<Item1, Item2>>)],
    [form |-> "json", value |-> Item2],
    [form |-> "json", value |-> Arr(<<Num>>)],
    [form |-> "fenced", value |-> Arr(<<Item1>>)] }

\* how one request ends: the client raises, the prompt is blocked (Gemini),
\* or a content comes back
ApiErrors == {"RateLimitError", "APIError"}
Outcomes ==
  { [raised |-> e, blocked |-> FALSE, content |-> NoContent] : e \in ApiErrors }
    \cup { [raised |-> "none", blocked |-> FALSE, content |-> c] : c \in Contents }
Blocked == [raised |-> "none", blocked |-> TRUE, content |-> NoContent]

Raise(e) == [kind |-> "exception", class |-> e]
Return(text) == [kind |-> "text", value |-> text]

\* item.get(key, ""), common.py lines 19-22
get(item, key) == IF key \in DOMAIN item.fields THEN item.fields[key] ELSE ""

\* common.py line 28
srt_block(item) ==
  <<get(item, "id"), "NL", get(item, "start"), "SP", "-->", "SP",
    get(item, "end"), "NL", get(item, "text"), "NL">>

\* "\n".join(srt_output), common.py line 31
RECURSIVE join_lines(_)
join_lines(parts) ==
  IF parts = <<>> THEN <<>>
  ELSE IF Len(parts) = 1 THEN parts[1]
  ELSE parts[1] \o <<"NL">> \o join_lines(Tail(parts))

\* common.py lines 16-31: iterating a number raises TypeError, .get on an
\* element that is no dict raises AttributeError
json_to_srt(data) ==
  IF data.type # "array" THEN Raise("TypeError")
  ELSE IF \E i \in 1..Len(data.elems) : data.elems[i].type # "object"
       THEN Raise("AttributeError")
  ELSE Return(join_lines([i \in 1..Len(data.elems) |-> srt_block(data.elems[i])]))

\* isinstance(data, dict): data = [data]
wrap_dict(data) == IF data.type = "object" THEN Arr(<<data>>) ELSE data

\* openrouter.py lines 62-81: an array is cut out of its fence by the
\* search for [ ... ], an object has its fence removed by replace()
openrouter_parse(reply) ==
  IF reply.form = "empty" THEN Raise("ValueError")
  ELSE IF reply.form = "prose" THEN Raise("JSONDecodeError")
  ELSE json_to_srt(wrap_dict(reply.value))

\* gemini.py lines 56-62: response.text goes to json.loads as it is
gemini_parse(reply) ==
  IF reply.form # "json" THEN Raise("JSONDecodeError")
  ELSE json_to_srt(wrap_dict(reply.value))

\* the classes that "except Exception" catches
ExceptionClasses ==
  {"RateLimitError", "APIError", "ValueError", "JSONDecodeError",
   "TypeError", "AttributeError"}

\* a handler that catches the errors of the API client only
caught_api_errors_only(e) == e \in ApiErrors

\* openrouter.py line 83, gemini.py line 65
caught(e) == e \in ExceptionClasses

\* gemini.py line 63
caught_inner(e) == e = "JSONDecodeError"

\* openrouter.py line 41
models_to_try == <<"priority_model", "fallback_model">>

original_chunk_for_fallback(c) == <<"chunk", c>>

\* the model asked is the one the instance last switched to
request_model_shared(c) == current_model

\* openrouter.py line 54: model=model, the local variable
request_model(c) == or_model[c]

RetryCounts == (-1)..MaxRetryCount

\* the provider is an OpenRouterTranslator, on which two calls of translate
\* run in parallel, or a GeminiTranslator, on which one call runs
InitProviders ==
  /\ \/ /\ current_model = models_to_try[1]
        /\ or_retry_count \in [Calls -> RetryCounts]
        /\ OpenRouterIdle("call")
        /\ g_retry_count = 0
        /\ GeminiIdle("idle")
     \/ /\ current_model = "none"
        /\ or_retry_count = [c \in Calls |-> 0]
        /\ OpenRouterIdle("idle")
        /\ g_retry_count \in RetryCounts
        /\ GeminiIdle("attempts")
  /\ CoreIdle
  /\ ScanIdle
  /\ FormatIdle
  /\ NotCancelled
  /\ HybridIdle
  /\ AppIdle

\* an inner loop that ends one attempt early
attempts_over_one_short(c) ==
  \/ or_pc[c] = "call"
  \/ or_pc[c] = "attempts" /\ or_attempt[c] >= or_retry_count[c]

\* the inner loop of call c has no attempt left, or has not started
attempts_over(c) ==
  \/ or_pc[c] = "call"
  \/ or_pc[c] = "attempts" /\ or_attempt[c] > or_retry_count[c]

\* openrouter.py lines 43-50: the outer loop takes its next model
OpenRouterNextModel(c) ==
  /\ attempts_over(c)
  /\ or_next[c] <= Len(models_to_try)
  /\ current_model' = models_to_try[or_next[c]]
  /\ or_model' = [or_model EXCEPT ![c] = models_to_try[or_next[c]]]
  /\ or_next' = [or_next EXCEPT ![c] = @ + 1]
  /\ or_attempt' = [or_attempt EXCEPT ![c] = 0]
  /\ or_pc' = [or_pc EXCEPT ![c] = "attempts"]
  /\ UNCHANGED <<not_providers, gemini_vars,
                 or_retry_count, or_requests, or_answer, or_result>>

\* openrouter.py lines 51-95: one attempt, from the request to the return
\* or to the end of the handler
OpenRouterAttempt(c) ==
  /\ or_pc[c] = "attempts"
  /\ or_attempt[c] <= or_retry_count[c]
  /\ \E o \in Outcomes :
       LET r == IF o.raised # "none" THEN Raise(o.raised)
                ELSE openrouter_parse(o.content)
       IN /\ or_requests' = [or_requests EXCEPT ![c] =
                 Append(@, [model |-> request_model(c), ok |-> r.kind = "text"])]
          /\ IF r.kind = "text"
             THEN /\ or_result' = [or_result EXCEPT ![c] = r]
                  /\ or_answer' = [or_answer EXCEPT ![c] = o.content]
                  /\ or_pc' = [or_pc EXCEPT ![c] = "returned"]
                  /\ UNCHANGED or_attempt
             ELSE IF ~caught(r.class)
             THEN /\ or_result' = [or_result EXCEPT ![c] = r]
                  /\ or_pc' = [or_pc EXCEPT ![c] = "raised"]
                  /\ UNCHANGED <<or_answer, or_attempt>>
             ELSE /\ or_attempt' = [or_attempt EXCEPT ![c] = @ + 1]
                  /\ UNCHANGED <<or_pc, or_answer, or_result>>
  /\ UNCHANGED <<not_providers, gemini_vars,
                 current_model, or_retry_count, or_next, or_model>>

\* openrouter.py lines 100-101
OpenRouterAllFailed(c) ==
  /\ attempts_over(c)
  /\ or_next[c] > Len(models_to_try)
  /\ or_result' = [or_result EXCEPT ![c] = Return(original_chunk_for_fallback(c))]
  /\ or_pc' = [or_pc EXCEPT ![c] = "returned"]
  /\ UNCHANGED <<not_providers, gemini_vars,
                 current_model, or_retry_count, or_next, or_model, or_attempt,
                 or_requests, or_answer>>

\* a loop that runs once more than range(retry_count + 1)
gemini_attempts_left_one_more == g_attempt <= g_retry_count + 1

\* gemini.py line 48: the loop has an attempt left
gemini_attempts_left == g_attempt <= g_retry_count

\* gemini.py lines 49-76: one attempt
GeminiAttempt ==
  /\ g_pc = "attempts"
  /\ gemini_attempts_left
  /\ \E o \in Outcomes \cup {Blocked} :
       LET r == IF o.raised # "none" THEN Raise(o.raised)
                ELSE IF o.blocked THEN Return(original_chunk_for_fallback(0))
                ELSE gemini_parse(o.content)
           how == IF o.blocked THEN "blocked"
                  ELSE IF r.kind = "text" THEN "ok" ELSE "failed"
       IN /\ g_requests' = Append(g_requests, how)
          /\ IF r.kind = "text"
             THEN /\ g_result' = r
                  /\ g_answer' = o.content
                  /\ g_pc' = "returned"
                  /\ UNCHANGED g_attempt
             ELSE IF ~caught_inner(r.class) /\ ~caught(r.class)
             THEN /\ g_result' = r
                  /\ g_pc' = "raised"
                  /\ UNCHANGED <<g_answer, g_attempt>>
             ELSE /\ g_attempt' = g_attempt + 1
                  /\ UNCHANGED <<g_pc, g_answer, g_result>>
  /\ UNCHANGED <<not_providers, openrouter_vars,
                 g_retry_count>>

\* gemini.py line 78
GeminiAllFailed ==
  /\ g_pc = "attempts"
  /\ ~gemini_attempts_left
  /\ g_result' = Return(original_chunk_for_fallback(0))
  /\ g_pc' = "returned"
  /\ UNCHANGED <<not_providers, openrouter_vars,
                 g_retry_count, g_attempt, g_requests, g_answer>>

NextProviders ==
  \/ \E c \in Calls : OpenRouterNextModel(c)
  \/ \E c \in Calls : OpenRouterAttempt(c)
  \/ \E c \in Calls : OpenRouterAllFailed(c)
  \/ GeminiAttempt
  \/ GeminiAllFailed

SpecProviders == InitProviders /\ [][NextProviders]_vars

\* every step that is enabled is eventually taken: a request is answered or
\* fails, a sleep ends
FairProviders == SpecProviders /\ WF_vars(NextProviders)

\* every call that was made has returned
AllReturned ==
  /\ \A c \in Calls : or_pc[c] \in {"idle", "returned"}
  /\ g_pc \in {"idle", "returned"}

\* call c of OpenRouterTranslator.translate has not raised, and what it
\* returned is its fallback string or the text made from a content received
OpenRouterOutcome(c) ==
  /\ or_pc[c] # "raised"
  /\ or_pc[c] = "returned" =>
       \/ or_answer[c] = NoContent
            /\ or_result[c] = Return(original_chunk_for_fallback(c))
       \/ or_answer[c] \in Contents
            /\ or_result[c] = openrouter_parse(or_answer[c])
            /\ or_result[c].kind = "text"

GeminiOutcome ==
  /\ g_pc # "raised"
  /\ g_pc = "returned" =>
       \/ g_answer = NoContent
            /\ g_result = Return(original_chunk_for_fallback(0))
       \/ g_answer \in Contents
            /\ g_result = gemini_parse(g_answer)
            /\ g_result.kind = "text"

\* C24: no call of OpenRouterTranslator.translate or GeminiTranslator.translate
\* raises, whatever the requests do (API error, rate limit, empty content,
\* content that is not JSON or not a list of objects); every call returns,
\* and returns the text made from a content it received or exactly its
\* fallback string.
C24_ReturnsTextOrFallback ==
  /\ [](GeminiOutcome /\ \A c \in Calls : OpenRouterOutcome(c))
  /\ <>AllReturned

\* two calls on an OpenRouterTranslator returned after failed requests: one
\* a text made from the model's content, the other its fallback string
C24_Witness ==
  /\ or_pc[1] = "returned"
  /\ or_answer[1] \in Contents
  /\ Len(or_requests[1]) > 1
  /\ or_pc[2] = "returned"
  /\ or_answer[2] = NoContent
  /\ Len(or_requests[2]) > 1

\* the model that request number k of call c goes to when the call runs
\* alone: the priority model for the first retry_count + 1 requests
sequential_model(c, k) ==
  IF k <= or_retry_count[c] + 1 THEN models_to_try[1] ELSE models_to_try[2]

\* C25: in every interleaving of two translate calls on one
\* OpenRouterTranslator, each call asks the models it would ask when run
\* alone, whatever current_model holds at the time of the request, and
\* returns what its own requests determine: the text made from the content
\* of its own last request, or its own fallback string.
C25_ConcurrentCallsIndependent ==
  \A c \in Calls :
    /\ \A k \in 1..Len(or_requests[c]) :
         or_requests[c][k].model = sequential_model(c, k)
    /\ or_pc[c] = "returned" =>
         IF or_requests[c] # <<>> /\ or_requests[c][Len(or_requests[c])].ok
         THEN or_result[c] = openrouter_parse(or_answer[c])
         ELSE or_result[c] = Return(original_chunk_for_fallback(c))

\* call 1 has sent requests to the priority model and is still on it while
\* call 2, also under way, has switched the instance to the fallback model
C25_Witness ==
  /\ or_pc[1] = "attempts"
  /\ or_model[1] = models_to_try[1]
  /\ or_requests[1] # <<>>
  /\ or_attempt[1] <= or_retry_count[1]
  /\ or_pc[2] = "attempts"
  /\ or_model[2] = models_to_try[2]
  /\ or_requests[2] # <<>>
  /\ current_model = models_to_try[2]

\* ------------------------------------------ abandoning a translation run
\* The caller gives up while a chunk is being processed. The function takes
\* no cancellation argument and reads no flag (lines 75-76, 166-174), so the
\* step changes nothing the run looks at.
CallerCancels ==
  /\ pc = "attempt"
  /\ cancelled_at = 0
  /\ cancelled_at' = Len(chunk_log) + 1
  /\ UNCHANGED <<core_vars, scan_vars, format_vars, provider_vars, hybrid_vars,
               app_vars>>

NextCancel == Next \/ CallerCancels

SpecCancel == Init /\ [][NextCancel]_vars

requests_to(c, m) == {k \in 1..Len(or_requests[c]) : or_requests[c][k].model = m}

\* C27: a call of OpenRouterTranslator.translate sends at most
\* retry_count + 1 requests to each model, to the priority model first; a
\* request goes to the fallback model only after retry_count + 1 failed
\* requests to the priority model; a request whose output parses is the
\* last one and its text is returned at once; the fallback string is
\* returned only after retry_count + 1 failed requests to each model.
C27_PriorityThenFallback ==
  \A c \in Calls :
    LET reqs == or_requests[c]
        n == or_retry_count[c] + 1
    IN /\ Cardinality(requests_to(c, "priority_model")) <= n
       /\ Cardinality(requests_to(c, "fallback_model")) <= n
       /\ Len(reqs) <= 2 * n
       /\ \A k \in 1..Len(reqs) :
            /\ reqs[k].model \in {"priority_model", "fallback_model"}
            /\ reqs[k].model = "fallback_model" =>
                 /\ k > n
                 /\ \A j \in 1..n : reqs[j].model = "priority_model" /\ ~reqs[j].ok
            /\ reqs[k].ok =>
                 /\ k = Len(reqs)
                 /\ or_pc[c] = "returned"
                 /\ or_result[c] = openrouter_parse(or_answer[c])
       /\ (or_pc[c] = "returned" /\ or_answer[c] = NoContent) =>
            /\ or_result[c] = Return(original_chunk_for_fallback(c))
            /\ Len(reqs) = 2 * n
            /\ \A k \in 1..Len(reqs) : ~reqs[k].ok

\* with the largest retry_count: call 1 returned the text of its first
\* request to the fallback model, call 2 its fallback string after both
\* models failed retry_count + 1 times
C27_Witness ==
  /\ or_retry_count = [c \in Calls |-> MaxRetryCount]
  /\ or_pc = [c \in Calls |-> "returned"]
  /\ Len(or_requests[1]) = MaxRetryCount + 2
  /\ or_requests[1][MaxRetryCount + 2] = [model |-> "fallback_model", ok |-> TRUE]
  /\ or_answer[2] = NoContent
  /\ Len(or_requests[2]) = 2 * (MaxRetryCount + 1)

\* C28: a call of GeminiTranslator.translate sends at most retry_count + 1
\* requests; a blocked response is the last request and returns the
\* fallback string; after a response that is not valid JSON or an API
\* error the call goes on with its next attempt, so while it runs every
\* request so far has failed and attempt counts them; and it returns the
\* fallback string without a block only after retry_count + 1 failures.
C28_GeminiAttempts ==
  LET n == Len(g_requests) IN
  /\ n <= g_retry_count + 1
  /\ \A k \in 1..n :
       /\ g_requests[k] = "blocked" =>
            /\ k = n
            /\ g_pc = "returned"
            /\ g_result = Return(original_chunk_for_fallback(0))
       /\ g_requests[k] = "ok" =>
            /\ k = n
            /\ g_pc = "returned"
            /\ g_result = gemini_parse(g_answer)
       /\ k < n => g_requests[k] = "failed"
  /\ g_pc = "attempts" =>
       /\ g_attempt = n
       /\ \A k \in 1..n : g_requests[k] = "failed"
  /\ (g_pc = "returned" /\ (n = 0 \/ g_requests[n] = "failed")) =>
       /\ n = g_retry_count + 1
       /\ g_result = Return(original_chunk_for_fallback(0))

\* with the largest retry_count, every attempt has failed and the fallback
\* string was returned
C28_Witness ==
  /\ g_retry_count = MaxRetryCount
  /\ g_pc = "returned"
  /\ g_requests = [k \in 1..(MaxRetryCount + 1) |-> "failed"]
  /\ g_result = Return(original_chunk_for_fallback(0))

\* ---------------------------------------------- transcribe_with_hybrid
\* celery_worker.py lines 16-17
MAX_VIDEO_DURATION_SECONDS == 30 * 60
GROQ_THRESHOLD_SECONDS == 10 * 60

\* durations, in seconds, around the two limits
Durations ==
  {0, 1} \cup { GROQ_THRESHOLD_SECONDS + d : d \in (-2)..2 }
         \cup { MAX_VIDEO_DURATION_SECONDS + d : d \in (-2)..2 }

InitHybrid ==
  /\ h_pc = "worker_start"
  /\ whisper_model = "None"
  /\ audio_duration \in Durations
  /\ h_invoked = <<>>
  /\ h_result = "none"
  /\ CoreIdle
  /\ ScanIdle
  /\ FormatIdle
  /\ ProvidersIdle
  /\ NotCancelled
  /\ AppIdle

\* lines 21-36: the worker starts; Transcriber(...) returns or raises
init_worker ==
  /\ h_pc = "worker_start"
  /\ whisper_model' \in {"loaded", "None"}
  /\ h_pc' = "call"
  /\ UNCHANGED <<not_hybrid, audio_duration, h_invoked, h_result>>

\* a limit that 30 minutes exactly exceeds
too_long_inclusive == audio_duration >= MAX_VIDEO_DURATION_SECONDS

\* line 51
too_long == audio_duration > MAX_VIDEO_DURATION_SECONDS

\* lines 47-52
CheckDuration ==
  /\ h_pc = "call"
  /\ IF too_long
     THEN h_pc' = "raised" /\ h_result' = "ValueError"
     ELSE h_pc' = "groq" /\ UNCHANGED h_result
  /\ UNCHANGED <<not_hybrid, whisper_model, audio_duration, h_invoked>>

\* lines 55-61: the Groq transcriber is built and called; it returns the
\* segments or raises
TryGroq ==
  /\ h_pc = "groq"
  /\ h_invoked' = Append(h_invoked, "groq")
  /\ \E groq_ok \in BOOLEAN :
       IF groq_ok
       THEN h_pc' = "returned" /\ h_result' = "groq"
       ELSE h_pc' = "fallback" /\ UNCHANGED h_result
  /\ UNCHANGED <<not_hybrid, whisper_model, audio_duration>>

\* lines 64-66
NoLocalModel ==
  /\ h_pc = "fallback"
  /\ whisper_model = "None"
  /\ h_pc' = "raised"
  /\ h_result' = "RuntimeError"
  /\ UNCHANGED <<not_hybrid, whisper_model, audio_duration, h_invoked>>

\* lines 68-69: the local model returns the segments, or raises
TryLocal ==
  /\ h_pc = "fallback"
  /\ whisper_model # "None"
  /\ h_invoked' = Append(h_invoked, "local")
  /\ \E local_ok \in BOOLEAN :
       IF local_ok
       THEN h_pc' = "returned" /\ h_result' = "local"
       ELSE h_pc' = "raised" /\ h_result' = "Exception"
  /\ UNCHANGED <<not_hybrid, whisper_model, audio_duration>>

NextHybrid ==
  \/ init_worker
  \/ CheckDuration
  \/ TryGroq
  \/ NoLocalModel
  \/ TryLocal

SpecHybrid == InitHybrid /\ [][NextHybrid]_vars

\* C29: the transcriber used follows the duration: the Groq API for audio
\* longer than GROQ_THRESHOLD_SECONDS, the local model for audio of that
\* length or less.
C29_BackendByDuration ==
  h_pc = "returned" =>
    h_result = (IF audio_duration > GROQ_THRESHOLD_SECONDS THEN "groq" ELSE "local")

MAX_DURATION_SECONDS == 30 * 60

\* utils/constants.py: the table of languages, cut down to two entries
supported_languages == [code \in {"en", "vi"} |->
                          IF code = "en" THEN "English" ELSE "Vietnamese"]

\* what a client may send as target_lang
LanguageInputs == {"vi", "Vietnamese", "xx", ""}

\* lines 5-13 of utils/common.py; "" is the falsy result
get_language_from_code(code) ==
  IF code \in DOMAIN supported_languages THEN supported_languages[code]
  ELSE IF \E c \in DOMAIN supported_languages : supported_languages[c] = code
       THEN code
  ELSE ""

\* durations of the upload around the limit, or no readable duration
UploadDurations ==
  { [readable |-> TRUE, seconds |-> d] :
      d \in {1} \cup { MAX_DURATION_SECONDS + k : k \in (-1)..1 } }
  \cup { [readable |-> FALSE, seconds |-> 0] }

\* a request arrives
InitService ==
  /\ api_pc = "request"
  /\ upload_exists = FALSE
  /\ upload_duration \in UploadDurations
  /\ target_lang \in LanguageInputs
  /\ api_reply = [kind |-> "none"]
  /\ enqueued = FALSE
  /\ task_state = "PENDING"
  /\ task_pc = "idle"
  /\ task_raised = "none"
  /\ task_return = [status |-> "none"]
  /\ status_reply = [state |-> "none"]
  /\ CoreIdle
  /\ LibIdle
  /\ RenderIdle
  /\ PipelineIdle

\* main.py lines 84-88: except Exception of generate_subtitle
InternalError ==
  /\ upload_exists' = FALSE
  /\ api_reply' = [kind |-> "error"]
  /\ api_pc' = "returned"

\* lines 46-48: the upload is copied to temp_filename
SaveUpload ==
  /\ api_pc = "request"
  /\ \/ /\ upload_exists' = TRUE
        /\ api_pc' = "saved"
        /\ UNCHANGED api_reply
     \/ InternalError
  /\ UNCHANGED <<upload_duration, target_lang, enqueued, task_state, task_pc,
                 task_raised, task_return, status_reply, not_service>>

\* lines 51-66: the duration check
CheckUploadDuration ==
  /\ api_pc = "saved"
  /\ IF upload_duration.readable /\ upload_duration.seconds > MAX_DURATION_SECONDS
     THEN /\ upload_exists' = FALSE
          /\ api_reply' = [kind |-> "http_400", detail |-> "Video too long"]
          /\ api_pc' = "returned"
     ELSE /\ api_pc' = "checked"
          /\ UNCHANGED <<upload_exists, api_reply>>
  /\ UNCHANGED <<upload_duration, target_lang, enqueued, task_state, task_pc,
                 task_raised, task_return, status_reply, not_service>>

\* lines 70-83: the language is resolved and the task is enqueued
Enqueue ==
  /\ api_pc = "checked"
  /\ IF get_language_from_code(target_lang) = ""
     THEN /\ api_reply' = [kind |-> "http_400",
                           detail |-> "Invalid target language"]
          /\ api_pc' = "returned"
          /\ UNCHANGED <<upload_exists, enqueued, task_pc>>
     ELSE \/ /\ enqueued' = TRUE
             /\ task_pc' = "queued"
             /\ api_reply' = [kind |-> "task_id"]
             /\ api_pc' = "returned"
             /\ UNCHANGED upload_exists
          \/ /\ InternalError
             /\ UNCHANGED <<enqueued, task_pc>>
  /\ UNCHANGED <<upload_duration, target_lang, task_state, task_raised,
                 task_return, status_reply, not_service>>

Range(f) == { f[x] : x \in DOMAIN f }

\* celery_worker.py lines 72-152: the steps inside the try block
TaskSteps == <<"transcribe", "merge_segments", "create_srt_content",
               "write_source_srt", "translate", "read_translated">>

step_after(s) ==
  LET i == CHOOSE k \in 1..Len(TaskSteps) : TaskSteps[k] = s
  IN IF i = Len(TaskSteps) THEN "return" ELSE TaskSteps[i + 1]

\* what a step may raise; all are subclasses of Exception
TaskExceptions == {"RuntimeError", "ValueError", "FileNotFoundError"}

\* an except clause for ValueError only
task_catches_value_error_only(e) == e = "ValueError"

\* line 146: except Exception
task_catches(e) == e \in TaskExceptions

\* line 76: the worker takes the task and reports progress
TaskStart ==
  /\ task_pc = "queued"
  /\ task_state' = "PROGRESS"
  /\ task_pc' = TaskSteps[1]
  /\ UNCHANGED <<api_pc, upload_exists, upload_duration, target_lang, api_reply,
                 enqueued, task_raised, task_return, status_reply, not_service>>

\* lines 84-144: a step succeeds; after the last one the result is returned
TaskStepReturns ==
  /\ task_pc \in Range(TaskSteps)
  /\ IF step_after(task_pc) = "return"
     THEN /\ task_return' = [status |-> "completed", srt_content |-> "translated"]
          /\ task_pc' = "finally"
     ELSE /\ task_pc' = step_after(task_pc)
          /\ UNCHANGED task_return
  /\ UNCHANGED <<api_pc, upload_exists, upload_duration, target_lang, api_reply,
                 enqueued, task_state, task_raised, status_reply, not_service>>

\* lines 146-148: a step raises
TaskStepRaises ==
  /\ task_pc \in Range(TaskSteps)
  /\ \E e \in TaskExceptions :
       /\ task_raised' = task_pc
       /\ IF task_catches(e)
          THEN task_return' = [status |-> "failed", error |-> e]
          ELSE task_return' = [status |-> "propagated", error |-> e]
  /\ task_pc' = "finally"
  /\ UNCHANGED <<api_pc, upload_exists, upload_duration, target_lang, api_reply,
                 enqueued, task_state, status_reply, not_service>>

\* lines 149-152, and the worker storing the outcome of the call
TaskFinally ==
  /\ task_pc = "finally"
  /\ upload_exists' = FALSE
  /\ task_state' = (IF task_return.status = "propagated" THEN "FAILURE"
                    ELSE "SUCCESS")
  /\ task_pc' = "ended"
  /\ UNCHANGED <<api_pc, upload_duration, target_lang, api_reply, enqueued,
                 task_raised, task_return, status_reply, not_service>>

\* main.py lines 91-110
get_status ==
  /\ api_reply = [kind |-> "task_id"]
  /\ status_reply' =
       IF task_state = "PENDING" THEN [state |-> "pending"]
       ELSE IF task_state = "PROGRESS" THEN [state |-> "processing"]
       ELSE IF task_state = "SUCCESS"
            THEN [state |-> "completed", result |-> task_return]
       ELSE [state |-> "failed"]
  /\ UNCHANGED <<api_pc, upload_exists, upload_duration, target_lang, api_reply,
                 enqueued, task_state, task_pc, task_raised, task_return,
                 not_service>>

NextService ==
  \/ SaveUpload
  \/ CheckUploadDuration
  \/ Enqueue
  \/ TaskStart
  \/ TaskStepReturns
  \/ TaskStepRaises
  \/ TaskFinally
  \/ get_status

SpecService == InitService /\ [][NextService]_vars

\* C31: when process_video_task has ended, no exception of a processing step
\* has propagated out of it; it has returned status "completed" with the
\* final SRT content when no step raised, and status "failed" with the error
\* text when one did; and the uploaded file at file_path is gone.
C31_TaskAlwaysReturnsAndCleans ==
  task_pc = "ended" =>
    /\ task_state = "SUCCESS"
    /\ IF task_raised = "none"
       THEN task_return = [status |-> "completed", srt_content |-> "translated"]
       ELSE /\ task_return.status = "failed"
            /\ task_return.error \in TaskExceptions
    /\ ~upload_exists

\* the translation step raised RuntimeError: the task returned "failed" and
\* removed the upload
C31_Witness ==
  /\ task_pc = "ended"
  /\ task_raised = "translate"
  /\ task_return = [status |-> "failed", error |-> "RuntimeError"]
  /\ ~upload_exists

\* C32: get_status answers state "failed" for a task in which a processing
\* step raised, and state "completed" only for a task whose subtitles were
\* produced.
C32_StatusReportsFailure ==
  status_reply.state \in {"completed", "failed"} =>
    (status_reply.state = "completed" <=> task_raised = "none")

\* C33: when generate_subtitle has returned without enqueuing a task, the
\* temporary upload file is gone; and a task is enqueued only for a target
\* language that resolves to a supported one.
C33_UploadDeletedUnlessEnqueued ==
  /\ (api_pc = "returned" /\ ~enqueued) => ~upload_exists
  /\ enqueued => get_language_from_code(target_lang) # ""

\* C34: a run of translate_subtitle_file_by_chunk writes the output file at
\* most once; the write happens only when the run is over, with no block
\* left to read, no chunk in progress and the text after the last block
\* appended, and what is written is the joined document; a run that raised
\* has written nothing.
C34_SingleFinalWrite ==
  /\ writes <= 1
  /\ writes = 1 <=> pc = "done"
  /\ pc # "done" => final_output = <<>>
  /\ pc = "done" =>
       /\ match_iter = <<>>
       /\ calls = <<>>
       /\ current_chunk_matches # <<>> =>
            /\ chunk_log # <<>>
            /\ chunk_log[Len(chunk_log)].ms = current_chunk_matches
       /\ LET final_part == Slice(content, last_match_end, Len(content) + 1)
          IN final_part # <<>> =>
               /\ translated_content # <<>>
               /\ translated_content[Len(translated_content)] = final_part
       /\ final_output = EnsureNewline(join(translated_content))

\* a run over two chunks and a text after the last block has written once
C34_Witness ==
  /\ pc = "done"
  /\ writes = 1
  /\ Len(chunk_log) = 2
  /\ last_match_end <= Len(content)
  /\ last_chunk.calls # <<>>

\* ----------------------- a provider on its own failure path (C35)
\* src/translation/gemini.py lines 28-36: GeminiLLM.generate returns
\* original_chunk_for_fallback; lines 137-164 of process_chunk then run as
\* in ProviderReturns
ProviderEchoes ==
  /\ pc = "attempt"
  /\ LET ms == current_chunk_matches
         llm_response == chunk_content(ms)
         resp == translated_response_str(llm_response)
         valid == is_valid_response(resp, content, ms)
         cs == Append(calls, [fallback |-> chunk_content(ms),
                              outcome |-> IF valid THEN "valid" ELSE "invalid"])
     IN IF ~valid /\ more_attempts(attempt)
        THEN /\ attempt' = attempt + 1
             /\ calls' = cs
             /\ UNCHANGED <<pc, translated_content, current_chunk_matches,
                            last_match_end, outputs, chunk_log,
                            last_chunk>>
        ELSE /\ AfterChunk(append(translated_content,
                                  final_translated_content(valid, resp, ms)),
                           chunk_end(ms), caller)
             /\ LogChunk(ms, IF valid THEN "Accepted" ELSE "FallenBack",
                         final_translated_content(valid, resp, ms), cs)
             /\ calls' = <<>>
             /\ attempt' = 0
  /\ UNCHANGED <<inputs, error, match_iter, caller, valid_vars, merge_vars, aux_vars>>

NextEcho ==
  \/ RaiseFileNotFound
  \/ RaiseValueError
  \/ ReadInput
  \/ ScanMatch
  \/ ScanEnd
  \/ ProviderEchoes

SpecEcho == Init /\ [][NextEcho]_vars

\* C35: with a provider that returns the fallback string it was given, every
\* chunk sent to it is accepted on the first attempt (one call, no retry),
\* the text emitted for the chunk is the chunk's own text, and the output
\* document is the input document, up to the final line feed.
C35_EchoAcceptedAtOnce ==
  /\ pc = "attempt" => calls = <<>>
  /\ (last_chunk # NoChunk /\ last_chunk.calls # <<>>) =>
       /\ Len(last_chunk.calls) = 1
       /\ last_chunk.status = "Accepted"
       /\ last_chunk.emitted = last_chunk.text
  /\ pc = "done" => final_output \in {content, content \o <<"NL">>}

\* ======================================================================
\* subtitle_processor.create_srt_content, and the pattern on its output
\* ======================================================================
\* the "start --> end" lines of the cues, as format_timestamp renders them
CueStamps == { <<"H1", "0", "0", "0">>, <<"H2", "0", "0", "1">> }

\* the texts of the cues: merge_segments keeps a segment whose text is empty
CueTexts == { <<>>, <<"a">>, <<"a", "SP", "b">> }

Cues == [stamp : CueStamps, text : CueTexts]

\* str(n) over the two digits of the alphabet
RECURSIVE numeral(_)
numeral(n) ==
  IF n < 2 THEN <<IF n = 1 THEN "1" ELSE "0">>
  ELSE numeral(n \div 2) \o <<IF n % 2 = 1 THEN "1" ELSE "0">>

\* line 83: f"{i + 1}\n{start} --> {end}\n{text}\n\n" with text stripped
srt_block_of(i, segment) ==
  numeral(i) \o <<"NL">> \o segment.stamp \o <<"NL">> \o strip(segment.text)
    \o <<"NL", "NL">>

\* lines 76-84
RECURSIVE create_srt_from(_, _)
create_srt_from(segs, i) ==
  IF i > Len(segs) THEN <<>>
  ELSE srt_block_of(i, segs[i]) \o create_srt_from(segs, i + 1)

create_srt_content(segs) == create_srt_from(segs, 1)

InitRender ==
  /\ r_pc = "call"
  /\ \E n \in 0..MaxSegments : segments_list \in [1..n -> Cues]
  /\ srt_content = <<>>
  /\ r_found = <<>>
  /\ CoreIdle
  /\ LibIdle
  /\ ServiceIdle
  /\ PipelineIdle

\* celery_worker.py line 93
CreateSrtContent ==
  /\ r_pc = "call"
  /\ srt_content' = create_srt_content(segments_list)
  /\ r_pc' = "rendered"
  /\ UNCHANGED <<segments_list, r_found, not_render>>

\* translation.py line 101: the translator scans the rendered file
ScanRendered ==
  /\ r_pc = "rendered"
  /\ r_found' = finditer(srt_content)
  /\ r_pc' = "scanned"
  /\ UNCHANGED <<segments_list, srt_content, not_render>>

NextRender == CreateSrtContent \/ ScanRendered

SpecRender == InitRender /\ [][NextRender]_vars

\* C36: the document rendered from N cues, scanned with the subtitle block
\* pattern, gives exactly N blocks, the i-th with index i and the i-th cue's
\* timestamps, cues with an empty text included.
C36_RenderedBlocksScan ==
  r_pc = "scanned" =>
    /\ Len(r_found) = Len(segments_list)
    /\ \A i \in 1..Len(r_found) :
         /\ strip(group(srt_content, r_found[i], 1)) = numeral(i)
         /\ strip(group(srt_content, r_found[i], 2)) = segments_list[i].stamp

\* ======================================================================
\* src/main.py: process_video
\* ======================================================================
\* the command lines: the three skip flags, --subtitle_file given or not,
\* --source_language left at its default or given
ArgSets == [skip_extract : BOOLEAN, skip_transcribe : BOOLEAN,
            skip_translate : BOOLEAN, subtitle_file : {"None", "user.srt"},
            source_language : {"auto", "en"}]

\* line 163
translation_source == IF args.source_language # "auto"
                      THEN args.source_language ELSE "en"

\* lines 104-107
InitPipeline ==
  /\ p_pc = "call"
  /\ args \in ArgSets
  /\ audio_file = "None"
  /\ subtitle_file = "None"
  /\ translated_subtitle_file = "None"
  /\ steps_run = <<>>
  /\ p_result = "none"
  /\ CoreIdle
  /\ LibIdle
  /\ ServiceIdle
  /\ RenderIdle

\* return False
ReturnFalse ==
  /\ p_result' = "False"
  /\ p_pc' = "returned"

ran(step, input, language, ok) ==
  Append(steps_run, [step |-> step, input |-> input, language |-> language,
                     ok |-> ok])

\* lines 109-125
Step1Extract ==
  /\ p_pc = "call"
  /\ IF ~args.skip_extract
     THEN \/ /\ audio_file' = "output.wav"
             /\ steps_run' = ran("extract", "input_file", "none", TRUE)
             /\ p_pc' = "step2"
             /\ UNCHANGED p_result
          \/ /\ steps_run' = ran("extract", "input_file", "none", FALSE)
             /\ ReturnFalse
             /\ UNCHANGED audio_file
     ELSE /\ IF args.subtitle_file # "None"
             THEN p_pc' = "step2" /\ UNCHANGED p_result
             ELSE ReturnFalse
          /\ UNCHANGED <<audio_file, steps_run>>
  /\ UNCHANGED <<args, subtitle_file, translated_subtitle_file, not_pipeline>>

\* speech_to_text/transcribe.py lines 140-142: os.path.abspath(None) raises
\* TypeError, a missing file raises FileNotFoundError
transcribe_can_succeed(audio_wav_path) == audio_wav_path # "None"

\* lines 127-152
Step2Transcribe ==
  /\ p_pc = "step2"
  /\ IF ~args.skip_transcribe
     THEN IF audio_file = "None" /\ args.subtitle_file = "None"
          THEN /\ ReturnFalse
               /\ UNCHANGED <<subtitle_file, steps_run>>
          ELSE \/ /\ transcribe_can_succeed(audio_file)
                  /\ subtitle_file' = "output.wav.srt"
                  /\ steps_run' = ran("transcribe", audio_file, args.source_language, TRUE)
                  /\ p_pc' = "step3"
                  /\ UNCHANGED p_result
               \/ /\ steps_run' = ran("transcribe", audio_file, args.source_language, FALSE)
                  /\ ReturnFalse
                  /\ UNCHANGED subtitle_file
     ELSE /\ subtitle_file' = args.subtitle_file
          /\ IF args.subtitle_file = "None"
             THEN ReturnFalse
             ELSE p_pc' = "step3" /\ UNCHANGED p_result
          /\ UNCHANGED steps_run
  /\ UNCHANGED <<args, audio_file, translated_subtitle_file, not_pipeline>>

\* Step3Translate that goes on to step 4 after a failed translation
Step3Translate_goes_on ==
  /\ p_pc = "step3"
  /\ IF ~args.skip_translate
     THEN \/ /\ translated_subtitle_file' = "translated.srt"
             /\ steps_run' = ran("translate", subtitle_file, translation_source, TRUE)
             /\ p_pc' = "step4"
             /\ UNCHANGED p_result
          \/ /\ steps_run' = ran("translate", subtitle_file, translation_source, FALSE)
             /\ p_pc' = "step4"
             /\ UNCHANGED <<translated_subtitle_file, p_result>>
     ELSE /\ translated_subtitle_file' = subtitle_file
          /\ p_pc' = "step4"
          /\ UNCHANGED <<steps_run, p_result>>
  /\ UNCHANGED <<args, audio_file, subtitle_file, not_pipeline>>

\* lines 154-172
Step3Translate ==
  /\ p_pc = "step3"
  /\ IF ~args.skip_translate
     THEN \/ /\ translated_subtitle_file' = "translated.srt"
             /\ steps_run' = ran("translate", subtitle_file, translation_source, TRUE)
             /\ p_pc' = "step4"
             /\ UNCHANGED p_result
          \/ /\ steps_run' = ran("translate", subtitle_file, translation_source, FALSE)
             /\ ReturnFalse
             /\ UNCHANGED translated_subtitle_file
     ELSE /\ translated_subtitle_file' = subtitle_file
          /\ p_pc' = "step4"
          /\ UNCHANGED <<steps_run, p_result>>
  /\ UNCHANGED <<args, audio_file, subtitle_file, not_pipeline>>

\* lines 174-192
Step4AddSubtitles ==
  /\ p_pc = "step4"
  /\ \/ /\ steps_run' = ran("add_subtitles", translated_subtitle_file, "none", TRUE)
        /\ p_result' = "True"
        /\ p_pc' = "returned"
     \/ /\ steps_run' = ran("add_subtitles", translated_subtitle_file, "none", FALSE)
        /\ ReturnFalse
  /\ UNCHANGED <<args, audio_file, subtitle_file, translated_subtitle_file,
                 not_pipeline>>

NextPipeline ==
  \/ Step1Extract
  \/ Step2Transcribe
  \/ Step3Translate
  \/ Step4AddSubtitles

SpecPipeline == InitPipeline /\ [][NextPipeline]_vars

\* the place of a step in the order of the pipeline
step_rank(step) ==
  IF step = "extract" THEN 1 ELSE IF step = "transcribe" THEN 2
  ELSE IF step = "translate" THEN 3 ELSE 4

step_skipped(step) ==
  \/ step = "extract" /\ args.skip_extract
  \/ step = "transcribe" /\ args.skip_transcribe
  \/ step = "translate" /\ args.skip_translate

\* C37: the steps of process_video run in the order extraction,
\* transcription, translation, subtitle adding, skipped steps left out; a
\* failed step is the last one to run and the result is then False; the
\* result is True only when the subtitle-adding step has run and succeeded,
\* every step not skipped having succeeded before it; and with translation
\* skipped the file added to the video is the untranslated subtitle file.
C37_PipelineOrder ==
  /\ \A k \in 1..Len(steps_run) :
       /\ ~step_skipped(steps_run[k].step)
       /\ k > 1 => step_rank(steps_run[k - 1].step) < step_rank(steps_run[k].step)
       /\ ~steps_run[k].ok =>
            /\ k = Len(steps_run)
            /\ p_pc = "returned"
            /\ p_result = "False"
  /\ p_result = "True" =>
       /\ p_pc = "returned"
       /\ steps_run # <<>>
       /\ steps_run[Len(steps_run)] =
            [step |-> "add_subtitles", input |-> translated_subtitle_file,
             language |-> "none", ok |-> TRUE]
       /\ \A s \in {"extract", "transcribe", "translate"} :
            step_skipped(s) \/ \E k \in 1..Len(steps_run) : steps_run[k].step = s
  /\ \A k \in 1..Len(steps_run) :
       (steps_run[k].step = "add_subtitles" /\ args.skip_translate) =>
         /\ steps_run[k].input = subtitle_file
         /\ steps_run[k].input # "translated.srt"

\* extraction and transcription ran, translation was skipped, and the
\* transcript was added to the video
C37_Witness ==
  /\ p_result = "True"
  /\ args.skip_translate
  /\ Len(steps_run) = 3
  /\ steps_run[3].input = "output.wav.srt"

\* C38: with --skip_extract and without --skip_transcribe the run is not
\* turned away before transcription, and the transcription step is given
\* the audio file the user already has.
C38_SkipExtractOnly ==
  (args.skip_extract /\ ~args.skip_transcribe) =>
    /\ p_pc = "returned" => steps_run # <<>>
    /\ \A k \in 1..Len(steps_run) :
         steps_run[k].step = "transcribe" => steps_run[k].input # "None"

====
